---------------------------- MODULE Spec2Model ----------------------------
(***************************************************************************)
(* Deduplication protocol of mnemosyne-rs: the coordinator                 *)
(* (src/src/mnemosyne.rs), the record classifier (src/src/model.rs) and    *)
(* the DynamoDB persistence (src/src/dynamodb.rs).                         *)
(*                                                                         *)
(* Time is a global wall clock counted in milliseconds.  A request is      *)
(* applied to the table at the instant the caller sends it; the code that  *)
(* runs after the await of a claim (the classification of the returned     *)
(* record, which reads the clock again) is a later step, so other callers  *)
(* act and the clock advances between a claim and its classification.      *)
(***************************************************************************)
EXTENDS Integers, Sequences, FiniteSets, TLC

\* ------------------------------------------------------------- bounds
NumCallers == 3
MaxTime == 3
\* Claims a poll loop issues before the model stops following it; only a
\* strategy whose delays are zero gets that far.
MaxPolls == 3

\* Milliseconds per second: expiresOn is stored in whole seconds.
MillisPerSec == 1000

Callers == 1..NumCallers

\* ------------------------------------------------------------- Option<T>
None == <<>>
Some(v) == <<v>>
IsSome(o) == o # <<>>
Unwrap(o) == o[1]

\* ------------------------------------------------------------- inputs
Ids == {"a", "b"}
Scopes == {"P", "Q", "Z", "M", "D", "T", "K"}
\* The (signal id, processor scope) pairs the callers use.
Keys == {<<"a", "P">>, <<"b", "P">>, <<"a", "Q">>,
         <<"a", "Z">>, <<"a", "M">>, <<"a", "D">>, <<"a", "T">>,
         <<"a", "K">>}

\* PollStrategy::linear / PollStrategy::backoff
Linear(delay, max_duration) ==
    [kind |-> "Linear", delay |-> delay, multiplier |-> 1, max_duration |-> max_duration]
Backoff(base_delay, multiplier, max_duration) ==
    [kind |-> "Backoff", delay |-> base_delay, multiplier |-> multiplier,
     max_duration |-> max_duration]

\* The poll strategies the applications of the scopes Z, M and D construct:
\* a zero delay, a multiplier below 1.0, a max_duration shorter than the
\* delay.
StrategyOf(scope) ==
    CASE scope = "Z" -> Linear(0, 2)
      [] scope = "M" -> Backoff(1, 0, 2)
      [] scope = "D" -> Linear(2, 1)

\* Config::new(processor_id, max_processing_time, ttl, poll_strategy), one
\* coordinator per scope.  P gives up polling before the record times out,
\* Q polls past the record's timeout, T has max_processing_time = 0, K polls
\* with a Backoff of multiplier 1.0.
Config(scope) ==
    IF scope = "P"
    THEN [processor_id |-> "P", max_processing_time |-> 3, ttl |-> Some(1),
          poll_strategy |-> Linear(1, 2)]
    ELSE IF scope = "Q"
    THEN [processor_id |-> "Q", max_processing_time |-> 2, ttl |-> None,
          poll_strategy |-> Backoff(1, 2, 3)]
    ELSE IF scope = "T"
    THEN [processor_id |-> "T", max_processing_time |-> 0, ttl |-> None,
          poll_strategy |-> Linear(1, 2)]
    ELSE IF scope = "K"
    THEN [processor_id |-> "K", max_processing_time |-> 4, ttl |-> None,
          poll_strategy |-> Backoff(1, 1, 3)]
    ELSE [processor_id |-> scope, max_processing_time |-> 3, ttl |-> None,
          poll_strategy |-> StrategyOf(scope)]

\* The value the protected effect of caller c produces.
ValueOf(c) == c

\* ------------------------------------------------------------- state
VARIABLES
    clock,      \* SystemTime::now(), in milliseconds
    store,      \* the table: key -> Option<item>
    keys,       \* the <<id, scope>> pairs the callers of this run use
    pc,         \* each caller's position
    op,         \* "once" (try_start_process, effect, callback) or "inv"
    key,        \* the <<id, scope>> of the caller's call
    snap,       \* the old item the last claim returned to the caller
    poll,       \* poll loop locals: start_time, attempt, wake-up instant
    outcome,    \* what try_start_process returned
    result,     \* what once returned
    how,        \* history: the branch that produced the caller's New
    first,      \* history: what the caller's first claim met
    last        \* history: the last request the table applied to each key

vars == <<clock, store, keys, pc, op, key, snap, poll, outcome, result, how, first, last>>

NoPoll == [start_time |-> 0, attempt |-> 0, wake |-> 0]
NoFirst == [ev |-> <<"unset">>, item |-> None, aged |-> FALSE]

\* ------------------------------------------------------------- model.rs
\* Process::is_completed
is_completed(p) == IsSome(p.completed_at)

\* Expiration::is_expired, with t the clock it reads
Expiration_is_expired(e, t) == t >= e

\* Process::is_expired
is_expired(p, t) == IsSome(p.expires_on) /\ Expiration_is_expired(Unwrap(p.expires_on), t)

\* Mutant: the timeout comparison is strict.
is_timeout_strict(p, t, max_processing_time) ==
    IF is_completed(p) THEN FALSE
    ELSE t >= p.started_at /\ t - p.started_at > max_processing_time

\* Mutant: max_processing_time = 0 switches the timeout off.
is_timeout_zero_disabled(p, t, max_processing_time) ==
    IF is_completed(p) \/ max_processing_time = 0 THEN FALSE
    ELSE t >= p.started_at /\ t - p.started_at >= max_processing_time

\* Process::is_timeout
is_timeout(p, t, max_processing_time) ==
    IF is_completed(p) THEN FALSE
    ELSE t >= p.started_at /\ t - p.started_at >= max_processing_time

\* Mutant: the TTL is honoured before the memoized value.
status_expired_first(p, t, max_processing_time) ==
    IF is_expired(p, t) THEN <<"Expired">>
    ELSE IF IsSome(p.memoized) /\ is_completed(p) THEN <<"Completed", Unwrap(p.memoized)>>
    ELSE IF is_timeout(p, t, max_processing_time) THEN <<"Timeout">>
    ELSE <<"Running">>

\* Mutant: a completion counts only within max_processing_time of the claim.
status_completed_in_window(p, t, max_processing_time) ==
    IF /\ IsSome(p.memoized) /\ is_completed(p)
       /\ t - p.started_at < max_processing_time
    THEN <<"Completed", Unwrap(p.memoized)>>
    ELSE IF is_expired(p, t) THEN <<"Expired">>
    ELSE IF is_timeout(p, t, max_processing_time) THEN <<"Timeout">>
    ELSE <<"Running">>

\* Mutant: the age of the record is examined before its TTL.
status_timeout_first(p, t, max_processing_time) ==
    IF IsSome(p.memoized) /\ is_completed(p) THEN <<"Completed", Unwrap(p.memoized)>>
    ELSE IF is_timeout(p, t, max_processing_time) THEN <<"Timeout">>
    ELSE IF is_expired(p, t) THEN <<"Expired">>
    ELSE <<"Running">>

\* Mutant: a record whose claim lies ahead of the clock has not started.
status_future_not_started(p, t, max_processing_time) ==
    IF IsSome(p.memoized) /\ is_completed(p) THEN <<"Completed", Unwrap(p.memoized)>>
    ELSE IF is_expired(p, t) THEN <<"Expired">>
    ELSE IF t < p.started_at THEN <<"NotStarted">>
    ELSE IF is_timeout(p, t, max_processing_time) THEN <<"Timeout">>
    ELSE <<"Running">>

\* Process::status, with t the clock read inside is_expired / is_timeout
status(p, t, max_processing_time) ==
    IF IsSome(p.memoized) /\ is_completed(p) THEN <<"Completed", Unwrap(p.memoized)>>
    ELSE IF is_expired(p, t) THEN <<"Expired">>
    ELSE IF is_timeout(p, t, max_processing_time) THEN <<"Timeout">>
    ELSE <<"Running">>

\* Mutant: the Backoff arm returns base_delay instead of max_duration.
max_duration_base_delay(strategy) ==
    IF strategy.kind = "Linear" THEN strategy.max_duration ELSE strategy.delay

\* Mutant: the wait allowed is max_duration on top of the first delay.
max_duration_after_delay(strategy) == strategy.max_duration + strategy.delay

\* PollStrategy::max_duration
max_duration(strategy) == strategy.max_duration

\* ------------------------------------------------------------- dynamodb.rs
\* The item an update creates when the key has no item: key attributes only.
KeyOnlyItem == [startedAt |-> None, completedAt |-> None, memoized |-> None,
                expiresOn |-> None]

\* Mutant: the claim overwrites startedAt (SET startedAt = :value).
StartUpdateOverwrites(old, t) ==
    LET base == IF IsSome(old) THEN Unwrap(old) ELSE KeyOnlyItem
    IN  Some([base EXCEPT !.startedAt = Some(t)])

\* Mutant: the claim is a put_item of a record that carries startedAt
\* only.
StartUpdatePutsItem(old, t) ==
    LET base == IF IsSome(old) THEN Unwrap(old) ELSE KeyOnlyItem
    IN  Some([KeyOnlyItem EXCEPT
                 !.startedAt = IF IsSome(base.startedAt) THEN base.startedAt ELSE Some(t)])

\* Mutant: the claim that creates the row also stamps it with an expiry.
StartUpdateStampsExpiry(old, t) ==
    LET base == IF IsSome(old) THEN Unwrap(old) ELSE KeyOnlyItem
    IN  Some([base EXCEPT !.startedAt = IF IsSome(base.startedAt) THEN @ ELSE Some(t),
                          !.expiresOn = IF IsSome(base.startedAt) THEN @
                                        ELSE Some(t \div MillisPerSec)])

\* Mutant: a claim on an uncompleted row takes the row over for the
\* claimant, SET startedAt = :value, and so starts the timeout again.
StartUpdateRearms(old, t) ==
    LET base == IF IsSome(old) THEN Unwrap(old) ELSE KeyOnlyItem
    IN  Some([base EXCEPT !.startedAt = IF IsSome(base.completedAt) /\ IsSome(@)
                                        THEN @ ELSE Some(t)])

\* update_item of start_processing_update:
\* SET startedAt = if_not_exists(startedAt, :value)
StartUpdate(old, t) ==
    LET base == IF IsSome(old) THEN Unwrap(old) ELSE KeyOnlyItem
    IN  Some([base EXCEPT !.startedAt = IF IsSome(base.startedAt) THEN @ ELSE Some(t)])

\* Mutant: the completion writes the timestamp (and the TTL) and leaves the
\* value to a second update.
CompleteUpdateStampOnly(old, t, ttl, value) ==
    LET base == IF IsSome(old) THEN Unwrap(old) ELSE KeyOnlyItem
        done == [base EXCEPT !.completedAt = Some(t)]
    IN  Some(IF IsSome(ttl)
             THEN [done EXCEPT !.expiresOn = Some((t + Unwrap(ttl)) \div MillisPerSec)]
             ELSE done)

\* Mutant: the completion carries the condition attribute_not_exists(
\* completedAt): the first completion wins.
CompleteUpdateFirstWins(old, t, ttl, value) ==
    LET base == IF IsSome(old) THEN Unwrap(old) ELSE KeyOnlyItem
        done == [base EXCEPT !.completedAt = Some(t), !.memoized = Some(value)]
    IN  IF IsSome(base.completedAt) THEN old
        ELSE Some(IF IsSome(ttl)
                  THEN [done EXCEPT !.expiresOn = Some((t + Unwrap(ttl)) \div MillisPerSec)]
                  ELSE done)

\* Mutant: expiresOn is stored in milliseconds, like completedAt.
CompleteUpdateExpiryMillis(old, t, ttl, value) ==
    LET base == IF IsSome(old) THEN Unwrap(old) ELSE KeyOnlyItem
        done == [base EXCEPT !.completedAt = Some(t), !.memoized = Some(value)]
    IN  Some(IF IsSome(ttl)
             THEN [done EXCEPT !.expiresOn = Some(t + Unwrap(ttl))]
             ELSE done)

\* update_item of complete_process:
\* SET completedAt = :completedAt, memoized = :memoized [, expiresOn = :expiresOn]
CompleteUpdate(old, t, ttl, value) ==
    LET base == IF IsSome(old) THEN Unwrap(old) ELSE KeyOnlyItem
        done == [base EXCEPT !.completedAt = Some(t), !.memoized = Some(value)]
    IN  Some(IF IsSome(ttl)
             THEN [done EXCEPT !.expiresOn = Some((t + Unwrap(ttl)) \div MillisPerSec)]
             ELSE done)

\* Mutant: the delete request leaves the item in place.
DeleteUpdateKeeps(old) == old

\* delete_item of invalidate_process
DeleteUpdate(old) == None

\* decode_process fails when startedAt is missing
DecodeFails(item) == ~IsSome(item.startedAt)

\* A memoized string that serde_json::from_str cannot parse as the result
\* type A (the values of the callers parse).
Garbled == 0
\* decode_process: serde_json::from_str on the memoized string fails; the
\* `?` converts the serde_json::Error with From, which yields
\* Error::Encoding.
JsonFails(item) == IsSome(item.memoized) /\ Unwrap(item.memoized) = Garbled

\* decode_process
decode_process(item) ==
    [started_at |-> Unwrap(item.startedAt),
     completed_at |-> item.completedAt,
     expires_on |-> IF IsSome(item.expiresOn)
                    THEN Some(Unwrap(item.expiresOn) * MillisPerSec) ELSE None,
     memoized |-> item.memoized]

\* ------------------------------------------------------------- mnemosyne.rs
RECURSIVE Pow(_, _)
Pow(b, n) == IF n = 0 THEN 1 ELSE b * Pow(b, n - 1)

\* Mutant: the delay is truncated to whole seconds, so a sub-second delay
\* is no delay.
PollDelayWholeSeconds(strategy, n) ==
    IF strategy.kind = "Linear" THEN strategy.delay \div MillisPerSec
    ELSE (strategy.delay * Pow(strategy.multiplier, n)) \div MillisPerSec

\* Mutant: the attempt counter is incremented before the delay is computed.
PollDelayNextAttempt(strategy, n) ==
    IF strategy.kind = "Linear" THEN strategy.delay
    ELSE strategy.delay * Pow(strategy.multiplier, n + 1)

\* poll_for_completion: the delay of the iteration whose attempt counter is n
PollDelay(strategy, n) ==
    IF strategy.kind = "Linear" THEN strategy.delay
    ELSE strategy.delay * Pow(strategy.multiplier, n)

\* Mutant: the item is addressed by the signal id alone.
TableKeyIdOnly(k) == <<k[1], "P">>

\* Mutant: the item is addressed by the processor scope alone.
TableKeyScopeOnly(k) == <<"a", k[2]>>

\* The key of the item a request addresses: key("id", ..), key("processorId", ..)
TableKey(k) == <<k[1], k[2]>>

Cfg(c) == Config(key[c][2])
Item(c) == store[TableKey(key[c])]

\* Mutant: a record seen Running is taken over at once instead of polled.
TryStartOnRunningNew(st) ==
    CASE st[1] = "Completed" -> <<"Duplicate", st[2]>>
      [] st[1] = "Expired"   -> <<"New", "expired">>
      [] st[1] = "Timeout"   -> <<"New", "timeout">>
      [] OTHER               -> <<"New", "notstarted">>

\* try_start_process, the match on the status of the returned record:
\* what the call does next.
TryStartOn(st) ==
    CASE st[1] = "Completed" -> <<"Duplicate", st[2]>>
      [] st[1] = "Expired"   -> <<"New", "expired">>
      [] st[1] = "Timeout"   -> <<"New", "timeout">>
      [] st[1] = "Running"   -> <<"Poll">>
      [] OTHER               -> <<"New", "notstarted">>

\* Mutant: a poll that finds the record timed out answers Duplicate with a
\* default value.
PollOnTimeoutDuplicate(st) ==
    CASE st[1] = "Completed" -> <<"Duplicate", st[2]>>
      [] st[1] = "Expired"   -> <<"New", "expired">>
      [] st[1] = "Timeout"   -> <<"Duplicate", 0>>
      [] st[1] = "Running"   -> <<"Poll">>
      [] OTHER               -> <<"New", "notstarted">>

\* Mutant: a poll that finds the record timed out keeps polling.
PollOnTimeoutPolls(st) ==
    CASE st[1] = "Completed" -> <<"Duplicate", st[2]>>
      [] st[1] = "Expired"   -> <<"New", "expired">>
      [] st[1] = "Timeout"   -> <<"Poll">>
      [] st[1] = "Running"   -> <<"Poll">>
      [] OTHER               -> <<"New", "notstarted">>

\* Mutant: a poll that finds the record completed only stops when the
\* completion is younger than the poll: otherwise it keeps polling.
PollOnCompletedPolls(st) ==
    CASE st[1] = "Completed" -> <<"Poll">>
      [] st[1] = "Expired"   -> <<"New", "expired">>
      [] st[1] = "Timeout"   -> <<"New", "timeout">>
      [] st[1] = "Running"   -> <<"Poll">>
      [] OTHER               -> <<"New", "notstarted">>

\* poll_for_completion, the match on the status of the returned record.
PollOn(st) ==
    CASE st[1] = "Completed" -> <<"Duplicate", st[2]>>
      [] st[1] = "Expired"   -> <<"New", "expired">>
      [] st[1] = "Timeout"   -> <<"New", "timeout">>
      [] st[1] = "Running"   -> <<"Poll">>
      [] OTHER               -> <<"New", "notstarted">>

\* Mutant: inside the poll loop the record is classified against the instant
\* the loop was entered, not against the clock.
AnswerAtPollStart(c) ==
    IF ~IsSome(snap[c]) THEN <<"NoRecord">>
    ELSE IF DecodeFails(Unwrap(snap[c])) THEN <<"DecodeError">>
    ELSE IF JsonFails(Unwrap(snap[c])) THEN <<"JsonError">>
    ELSE status(decode_process(Unwrap(snap[c])),
                IF pc[c] = "pollclassify" THEN poll[c].start_time ELSE clock,
                Cfg(c).max_processing_time)

\* The answer of start_processing_update as the caller reads it after the
\* await: no previous record, a decoding error, or the status of the decoded
\* record against the clock of that moment.
Answer(c) ==
    IF ~IsSome(snap[c]) THEN <<"NoRecord">>
    ELSE IF DecodeFails(Unwrap(snap[c])) THEN <<"DecodeError">>
    ELSE IF JsonFails(Unwrap(snap[c])) THEN <<"JsonError">>
    ELSE status(decode_process(Unwrap(snap[c])), clock, Cfg(c).max_processing_time)

\* Mutant: a record that does not decode is taken for an absent one.
DecideUndecodableIsNew(a, fresh, onStatus) ==
    CASE a[1] \in {"NoRecord", "DecodeError"} -> <<"New", fresh>>
      [] a[1] = "JsonError"   -> <<"Err", "Encoding">>
      [] OTHER                -> onStatus

\* What the caller does with the answer: `fresh` names the branch of an
\* absent record (None in try_start_process, the else branch in
\* poll_for_completion), `onStatus` is the match on the status.
Decide(a, fresh, onStatus) ==
    CASE a[1] = "NoRecord"    -> <<"New", fresh>>
      [] a[1] = "DecodeError" -> <<"Err", "Decoding">>
      [] a[1] = "JsonError"   -> <<"Err", "Encoding">>
      [] OTHER                -> onStatus

\* The caller's locals that are dead once it leaves the claim / poll code.
Forget(c) ==
    /\ snap' = [snap EXCEPT ![c] = None]
    /\ poll' = [poll EXCEPT ![c] = NoPoll]

\* Outcome::New: create_new_outcome.  In once the effect f starts running.
ReturnNew(c, h) ==
    /\ pc' = [pc EXCEPT ![c] = "run"]
    /\ outcome' = [outcome EXCEPT ![c] = <<"New">>]
    /\ how' = [how EXCEPT ![c] = h]
    /\ Forget(c)
    /\ UNCHANGED <<result>>

\* Mutant: a duplicate answers with a value of its own instead of the
\* memoized one.
ReturnDuplicateOwn(c, v) ==
    /\ pc' = [pc EXCEPT ![c] = "done"]
    /\ outcome' = [outcome EXCEPT ![c] = <<"Duplicate", ValueOf(c)>>]
    /\ result' = [result EXCEPT ![c] = <<"Ok", ValueOf(c)>>]
    /\ Forget(c)
    /\ UNCHANGED <<how>>

\* Mutant: once runs the effect on Outcome::Duplicate as well.
ReturnDuplicateRuns(c, v) ==
    /\ pc' = [pc EXCEPT ![c] = "run"]
    /\ outcome' = [outcome EXCEPT ![c] = <<"Duplicate", v>>]
    /\ Forget(c)
    /\ UNCHANGED <<result, how>>

\* Outcome::Duplicate { value }; once returns Ok(value).
ReturnDuplicate(c, v) ==
    /\ pc' = [pc EXCEPT ![c] = "done"]
    /\ outcome' = [outcome EXCEPT ![c] = <<"Duplicate", v>>]
    /\ result' = [result EXCEPT ![c] = <<"Ok", v>>]
    /\ Forget(c)
    /\ UNCHANGED <<how>>

\* Err(e) out of try_start_process, propagated by once with `?`.
ReturnErr(c, e) ==
    /\ pc' = [pc EXCEPT ![c] = "done"]
    /\ outcome' = [outcome EXCEPT ![c] = <<"Err", e>>]
    /\ result' = [result EXCEPT ![c] = <<"Err", e>>]
    /\ Forget(c)
    /\ UNCHANGED <<how>>

\* sleep(delay) of the poll iteration whose attempt counter is n.
Sleep(c, start, n) ==
    /\ pc' = [pc EXCEPT ![c] = "sleep"]
    /\ poll' = [poll EXCEPT ![c] = [start_time |-> start, attempt |-> n,
                                    wake |-> clock + PollDelay(Cfg(c).poll_strategy, n)]]
    /\ snap' = [snap EXCEPT ![c] = None]
    /\ UNCHANGED <<outcome, result, how>>

Act(c, d) ==
    CASE d[1] = "Duplicate" -> ReturnDuplicate(c, d[2])
      [] d[1] = "New"       -> ReturnNew(c, d[2])
      [] d[1] = "Err"       -> ReturnErr(c, d[2])

\* ------------------------------------------------------------- actions
InitOn(ks) ==
    /\ clock = 0
    /\ store = [k \in Keys |-> None]
    /\ keys = ks
    /\ pc = [c \in Callers |-> "idle"]
    /\ op = [c \in Callers |-> "none"]
    /\ key = [c \in Callers |-> <<"a", "P">>]
    /\ snap = [c \in Callers |-> None]
    /\ poll = [c \in Callers |-> NoPoll]
    /\ outcome = [c \in Callers |-> <<>>]
    /\ result = [c \in Callers |-> <<>>]
    /\ how = [c \in Callers |-> "none"]
    /\ first = [c \in Callers |-> NoFirst]
    /\ last = [k \in Keys |-> <<"none">>]

\* All callers work on one signal under one scope.
Init == InitOn({<<"a", "P">>})

\* Time passes.
Tick ==
    /\ clock < MaxTime
    /\ clock' = clock + 1
    /\ UNCHANGED <<store, keys, pc, op, key, snap, poll, outcome, result, how, first, last>>

\* Mutant: the update answers with the item as it is after the update
\* (ReturnValue::AllNew).
ApplyReturnsNew(c, k) ==
    /\ store' = [store EXCEPT ![TableKey(k)] = StartUpdate(@, clock)]
    /\ snap' = [snap EXCEPT ![c] = StartUpdate(store[TableKey(k)], clock)]
    /\ last' = [last EXCEPT ![TableKey(k)] = <<"claim">>]

\* The table applies the caller's start_processing_update(id, processor_id,
\* now) and answers with the old item (ReturnValue::AllOld).
Apply(c, k) ==
    /\ store' = [store EXCEPT ![TableKey(k)] = StartUpdate(@, clock)]
    /\ snap' = [snap EXCEPT ![c] = store[TableKey(k)]]
    /\ last' = [last EXCEPT ![TableKey(k)] = <<"claim">>]

\* What the first claim of a call met (history).
Met(k) ==
    LET old == store[TableKey(k)]
    IN  [ev |-> last[TableKey(k)], item |-> old,
         aged |-> /\ IsSome(old)
                  /\ IsSome(Unwrap(old).startedAt)
                  /\ ~IsSome(Unwrap(old).completedAt)
                  /\ clock - Unwrap(Unwrap(old).startedAt)
                       >= Config(k[2]).max_processing_time]

\* The keys a call can name next.  Signals are interchangeable as callers
\* are: signal b is used once signal a has been.
UsableKeys ==
    {k \in keys : k[1] = "b" => \E d \in Callers : op[d] # "none" /\ key[d][1] = "a"}

\* A caller calls once(id, f) or try_start_process(id) on the coordinator of
\* a scope: phase 1, the claim.  Callers are interchangeable, so they start in
\* the order of their numbers.
Start(c) ==
    /\ pc[c] = "idle"
    /\ \A d \in Callers : d < c => pc[d] # "idle"
    /\ \E k \in UsableKeys :
        /\ op' = [op EXCEPT ![c] = "once"]
        /\ key' = [key EXCEPT ![c] = k]
        /\ Apply(c, k)
        /\ first' = [first EXCEPT ![c] = Met(k)]
    /\ pc' = [pc EXCEPT ![c] = "classify"]
    /\ UNCHANGED <<clock, keys, poll, outcome, result, how>>

\* try_start_process after the await: classify the returned record.
Classify(c) ==
    /\ pc[c] = "classify"
    /\ LET d == Decide(Answer(c), "fresh", TryStartOn(Answer(c)))
       IN  IF d[1] = "Poll" THEN Sleep(c, clock, 0) ELSE Act(c, d)
    /\ UNCHANGED <<clock, store, keys, op, key, first, last>>

\* Mutant: the iteration claims first and would compare the elapsed time
\* afterwards.
WakeClaimsFirst(c) ==
    /\ pc[c] = "sleep"
    /\ clock >= poll[c].wake
    /\ poll[c].attempt < MaxPolls
    /\ pc' = [pc EXCEPT ![c] = "pollclassify"]
    /\ poll' = [poll EXCEPT ![c].attempt = @ + 1]
    /\ Apply(c, key[c])
    /\ UNCHANGED <<clock, keys, op, key, first, outcome, result, how>>

\* poll_for_completion: sleep(delay) returns, attempt += 1, the max-duration
\* check, and the next claim.
Wake(c) ==
    /\ pc[c] = "sleep"
    /\ clock >= poll[c].wake
    /\ IF clock - poll[c].start_time >= max_duration(Cfg(c).poll_strategy)
       THEN ReturnNew(c, "pollmax") /\ UNCHANGED <<store, last>>
       ELSE /\ poll[c].attempt < MaxPolls
            /\ pc' = [pc EXCEPT ![c] = "pollclassify"]
            /\ poll' = [poll EXCEPT ![c].attempt = @ + 1]
            /\ Apply(c, key[c])
            /\ UNCHANGED <<outcome, result, how>>
    /\ UNCHANGED <<clock, keys, op, key, first>>

\* Mutant: a poll claim that finds no record goes on polling.
PollClassifyAbsentPolls(c) ==
    /\ pc[c] = "pollclassify"
    /\ LET d == Decide(Answer(c), "gone", PollOn(Answer(c)))
       IN  IF d[1] = "Poll" \/ Answer(c)[1] = "NoRecord"
           THEN Sleep(c, poll[c].start_time, poll[c].attempt)
           ELSE Act(c, d)
    /\ UNCHANGED <<clock, store, keys, op, key, first, last>>

\* poll_for_completion after the await: classify, return or loop.
PollClassify(c) ==
    /\ pc[c] = "pollclassify"
    /\ LET d == Decide(Answer(c), "gone", PollOn(Answer(c)))
       IN  IF d[1] = "Poll" THEN Sleep(c, poll[c].start_time, poll[c].attempt)
           ELSE Act(c, d)
    /\ UNCHANGED <<clock, store, keys, op, key, first, last>>

\* The effect finished with its value: once (or the holder of the callback)
\* calls complete_process(value); the table applies it and once returns
\* Ok(result).
EffectOk(c) ==
    /\ pc[c] = "run"
    /\ store' = [store EXCEPT ![TableKey(key[c])] =
                    CompleteUpdate(@, clock, Cfg(c).ttl, ValueOf(c))]
    /\ last' = [last EXCEPT ![TableKey(key[c])] = <<"complete", ValueOf(c)>>]
    /\ pc' = [pc EXCEPT ![c] = "done"]
    /\ result' = [result EXCEPT ![c] = <<"Ok", ValueOf(c)>>]
    /\ UNCHANGED <<clock, keys, op, key, snap, poll, outcome, how, first>>

\* Mutant: once invalidates the record when f fails.
OnceErrStoreInvalidates(c) == [store EXCEPT ![TableKey(key[c])] = None]

\* once, `f().await?` with f returning Err: what happens to the table.
OnceErrStore(c) == store

\* The effect f failed inside once: the error is returned.
EffectErr(c) ==
    /\ pc[c] = "run"
    /\ pc' = [pc EXCEPT ![c] = "done"]
    /\ result' = [result EXCEPT ![c] = <<"Err", "User">>]
    /\ store' = OnceErrStore(c)
    /\ UNCHANGED <<clock, keys, op, key, snap, poll, outcome, how, first, last>>

\* Mutant: the delete carries a condition (attribute_exists), so deleting a
\* row that does not exist is an error.
InvalidateAnswerMissingFails(old) ==
    IF IsSome(old) THEN <<"Ok", 0>> ELSE <<"Err", "Backend">>

\* invalidate_process: what the unconditional delete_item answers, whatever
\* item it found: Ok(()).
InvalidateAnswer(old) == <<"Ok", 0>>

\* A caller calls invalidate(id); the table applies invalidate_process.
Invalidate(c) ==
    /\ pc[c] = "idle"
    /\ \A d \in Callers : d < c => pc[d] # "idle"
    /\ \E k \in UsableKeys :
        /\ op' = [op EXCEPT ![c] = "inv"]
        /\ key' = [key EXCEPT ![c] = k]
        /\ store' = [store EXCEPT ![TableKey(k)] = DeleteUpdate(@)]
        /\ last' = [last EXCEPT ![TableKey(k)] = <<"inv">>]
        /\ result' = [result EXCEPT ![c] = InvalidateAnswer(store[TableKey(k)])]
    /\ pc' = [pc EXCEPT ![c] = "done"]
    /\ UNCHANGED <<clock, keys, snap, poll, outcome, how, first>>

Next ==
    \/ Tick
    \/ \E c \in Callers : Start(c)
    \/ \E c \in Callers : Classify(c)
    \/ \E c \in Callers : Wake(c)
    \/ \E c \in Callers : PollClassify(c)
    \/ \E c \in Callers : EffectOk(c)
    \/ \E c \in Callers : EffectErr(c)
    \/ \E c \in Callers : Invalidate(c)

Spec == Init /\ [][Next]_vars

\* The operations of applications whose effect never fails.
NextOk ==
    \/ Tick
    \/ \E c \in Callers : Start(c)
    \/ \E c \in Callers : Classify(c)
    \/ \E c \in Callers : Wake(c)
    \/ \E c \in Callers : PollClassify(c)
    \/ \E c \in Callers : EffectOk(c)
    \/ \E c \in Callers : Invalidate(c)

\* Two coordinators with the scopes P and Q share the table; the callers use
\* signal a under either scope.
InitScopes == InitOn({<<"a", "P">>, <<"a", "Q">>})
SpecScopes == InitScopes /\ [][NextOk]_vars

\* The callers use the signals a and b under scope P.
InitIds == InitOn({<<"a", "P">>, <<"b", "P">>})
SpecIds == InitIds /\ [][Next]_vars

\* Three applications construct their coordinators with poll strategies
\* built from a zero delay, a multiplier below 1.0 and a max_duration
\* shorter than the delay.
InitStrategies == InitOn({<<"a", "Z">>, <<"a", "M">>, <<"a", "D">>})
SpecStrategies == InitStrategies /\ [][Next]_vars

\* The rows a table shared with other writers can hold for a key, any
\* combination of the optional attributes: claimed now or by a writer whose
\* clock is ahead, completed or not, with or without a memoized value, with
\* a TTL that has elapsed, one that has not, or none.
Rows ==
    [startedAt : {Some(0), Some(1)}, completedAt : {None, Some(0)},
     memoized : {None, Some(ValueOf(1))}, expiresOn : {None, Some(0), Some(1)}]

\* The coordinator of scope Q starts on a table that holds any such row, or
\* none, for the signal.
InitRows ==
    /\ clock = 0
    /\ \E row \in {None} \cup {Some(r) : r \in Rows} :
          store = [k \in Keys |-> IF k = <<"a", "Q">> THEN row ELSE None]
    /\ keys = {<<"a", "Q">>}
    /\ pc = [c \in Callers |-> "idle"]
    /\ op = [c \in Callers |-> "none"]
    /\ key = [c \in Callers |-> <<"a", "P">>]
    /\ snap = [c \in Callers |-> None]
    /\ poll = [c \in Callers |-> NoPoll]
    /\ outcome = [c \in Callers |-> <<>>]
    /\ result = [c \in Callers |-> <<>>]
    /\ how = [c \in Callers |-> "none"]
    /\ first = [c \in Callers |-> NoFirst]
    /\ last = [k \in Keys |-> <<"none">>]

\* The callers call try_start_process and keep the callback of a New
\* without calling it.
NextRows ==
    \/ Tick
    \/ \E c \in Callers : Start(c)
    \/ \E c \in Callers : Classify(c)
    \/ \E c \in Callers : Wake(c)
    \/ \E c \in Callers : PollClassify(c)

SpecRows == InitRows /\ [][NextRows]_vars

\* A coordinator with max_processing_time = 0 (scope T) next to the
\* coordinator of scope P.
InitZero == InitOn({<<"a", "T">>, <<"a", "P">>})
SpecZero == InitZero /\ [][NextOk]_vars

\* A coordinator whose max_duration is shorter than its delay (scope D) next
\* to the coordinator of scope P.
InitShort == InitOn({<<"a", "D">>, <<"a", "P">>})
SpecShort == InitShort /\ [][NextOk]_vars

\* Callers of try_start_process under the three coordinators P (Linear),
\* Q (Backoff, multiplier 2) and K (Backoff, multiplier 1).
InitPolls == InitOn({<<"a", "P">>, <<"a", "Q">>, <<"a", "K">>})
SpecPolls == InitPolls /\ [][NextRows]_vars

\* Mutant: once ignores the result of the completion callback and returns
\* the value.
CompleteFailedIgnored(c) == <<"Ok", ValueOf(c)>>

\* once, `complete_process(result.clone()).await?` with the callback
\* returning Err: what once returns.
CompleteFailed(c) == <<"Err", "Backend">>

\* The effect finished with its value and the backend rejects the
\* completion write: the table is not changed and once returns the error.
CompleteFails(c) ==
    /\ pc[c] = "run"
    /\ pc' = [pc EXCEPT ![c] = "done"]
    /\ result' = [result EXCEPT ![c] = CompleteFailed(c)]
    /\ UNCHANGED <<clock, store, keys, op, key, snap, poll, outcome, how, first, last>>

\* The backend may reject completion writes.
NextFail ==
    \/ Next
    \/ \E c \in Callers : CompleteFails(c)

SpecFail == Init /\ [][NextFail]_vars

\* Time passes beyond the horizon while a sleeping caller waits for it.
TickOver ==
    /\ clock >= MaxTime
    /\ \E c \in Callers : pc[c] = "sleep" /\ poll[c].wake > clock
    /\ clock' = clock + 1
    /\ UNCHANGED <<store, keys, pc, op, key, snap, poll, outcome, result, how, first, last>>

\* Mutant: a failed claim is read as "no previous record" and the call goes
\* on to Outcome::New.
ClaimFailedAsNew(c) == ReturnNew(c, "fresh")

\* `.await?` on a failed start_processing_update: Error::DynamoDb leaves
\* try_start_process, and once with it.
ClaimFailed(c) == ReturnErr(c, "Backend")

\* The backend rejects the first claim of a call: the table is not changed.
StartFails(c) ==
    /\ pc[c] = "idle"
    /\ \A d \in Callers : d < c => pc[d] # "idle"
    /\ \E k \in UsableKeys :
        /\ op' = [op EXCEPT ![c] = "once"]
        /\ key' = [key EXCEPT ![c] = k]
    /\ ClaimFailed(c)
    /\ UNCHANGED <<clock, store, keys, first, last>>

\* The backend rejects a claim of the poll loop.
WakeFails(c) ==
    /\ pc[c] = "sleep"
    /\ clock >= poll[c].wake
    /\ clock - poll[c].start_time < max_duration(Cfg(c).poll_strategy)
    /\ ClaimFailed(c)
    /\ UNCHANGED <<clock, store, keys, op, key, first, last>>

\* The steps that the runtime, the timer and an answering backend take
\* without the application: time passes, a sleep ends, an answer arrives.
Waiting ==
    \/ Tick
    \/ TickOver
    \/ \E c \in Callers : Classify(c) \/ Wake(c) \/ PollClassify(c)

\* Time is not cut at the horizon and the backend may reject claims.
NextLive ==
    \/ Next
    \/ TickOver
    \/ \E c \in Callers : StartFails(c)
    \/ \E c \in Callers : WakeFails(c)

\* Time advances, sleeps end and answers arrive; the effect and the
\* application are not obliged to do anything.
SpecLive == Init /\ [][NextLive]_vars /\ WF_vars(Waiting)

\* Time is not cut at the horizon and the backend answers every claim.
NextFair ==
    \/ Next
    \/ TickOver

\* Some step of Waiting can be taken: ENABLED <<Waiting>>_vars, from the
\* guards of Tick, TickOver, Classify, Wake and PollClassify.
WaitingEnabled ==
    \/ clock < MaxTime
    \/ \E c \in Callers : pc[c] \in {"classify", "pollclassify"}
    \/ \E c \in Callers :
          /\ pc[c] = "sleep"
          /\ \/ poll[c].wake > clock
             \/ clock - poll[c].start_time >= max_duration(Cfg(c).poll_strategy)
             \/ poll[c].attempt < MaxPolls

\* The step is one of Waiting: among the steps of NextFair, those in which
\* time passes or a caller leaves an await of try_start_process.
WaitingStep ==
    \/ clock' # clock
    \/ \E c \in Callers : pc[c] \in {"classify", "sleep", "pollclassify"} /\ pc'[c] # pc[c]

\* The two are what they are said to be.
WaitingEnabledIsEnabled == WaitingEnabled <=> ENABLED <<Waiting>>_vars
WaitingStepIsWaiting == [][WaitingStep <=> Waiting]_vars

\* WF_vars(Waiting), written out with the two.
FairWaiting == []<>~WaitingEnabled \/ []<><<WaitingStep>>_vars

SpecFair == Init /\ [][NextFair]_vars /\ FairWaiting

\* A writer other than this coordinator (a version of the application with
\* another result type) overwrites the memoized string of a completed row
\* with one that does not parse as A.
Corrupt(k) ==
    /\ k \in keys
    /\ IsSome(store[TableKey(k)])
    /\ IsSome(Unwrap(store[TableKey(k)]).memoized)
    /\ Unwrap(Unwrap(store[TableKey(k)]).memoized) # Garbled
    /\ store' = [store EXCEPT ![TableKey(k)] = Some([Unwrap(@) EXCEPT !.memoized = Some(Garbled)])]
    /\ last' = [last EXCEPT ![TableKey(k)] = <<"corrupt">>]
    /\ UNCHANGED <<clock, keys, pc, op, key, snap, poll, outcome, result, how, first>>

\* The table is shared with a writer that stores rows this coordinator
\* cannot decode.
NextDecode ==
    \/ Next
    \/ \E k \in Keys : Corrupt(k)

SpecDecode == Init /\ [][NextDecode]_vars

\* ------------------------------------------------------------- vocabulary
\* The callers that called once / try_start_process on key k.
On(k) == {c \in Callers : op[c] = "once" /\ key[c] = k}
\* Caller c obtained Outcome::New: it runs (ran) the protected effect.
Ran(c) == outcome[c] = <<"New">>
\* try_start_process answered caller c with Outcome::Duplicate.
GotDuplicate(c) == Len(outcome[c]) = 2 /\ outcome[c][1] = "Duplicate"
\* The first claim of caller c met a record, completed or not.
MetCompleted(c) == IsSome(first[c].item) /\ IsSome(Unwrap(first[c].item).completedAt)
MetUncompleted(c) == IsSome(first[c].item) /\ ~IsSome(Unwrap(first[c].item).completedAt)
\* The callers that ran the effect for key k.
Runners(k) == {c \in On(k) : Ran(c)}
\* The completion callback of caller c has written its value.
Wrote(c) == Ran(c) /\ pc[c] = "done" /\ result[c] = <<"Ok", ValueOf(c)>>
\* invalidate was never called on key k.
NoInvalidate(k) == \A c \in Callers : ~(op[c] = "inv" /\ key[c] = k)
\* The step gives caller c its Outcome::New.
GetsNew(c) == ~Ran(c) /\ Ran(c)'
\* The record snapshot caller c holds is uncompleted and, read against the
\* clock, at least max_processing_time old.
HoldsTimedOut(c) ==
    /\ IsSome(snap[c])
    /\ IsSome(Unwrap(snap[c]).startedAt)
    /\ ~IsSome(Unwrap(snap[c]).completedAt)
    /\ clock - Unwrap(Unwrap(snap[c]).startedAt) >= Cfg(c).max_processing_time
\* Caller c has waited in the poll loop for max_duration or longer.
PollExhausted(c) ==
    /\ pc[c] = "sleep"
    /\ clock - poll[c].start_time >= max_duration(Cfg(c).poll_strategy)

\* ------------------------------------------------------------- C1
\* C1 as stated: without invalidation, a second invocation of the effect for
\* a key happens only once the record's age has reached max_processing_time
\* (otherwise the effect runs once).
C1_SecondRunOnlyAfterTimeout ==
    \A k \in Keys :
        (NoInvalidate(k) /\ Cardinality(Runners(k)) >= 2) =>
            /\ IsSome(store[k])
            /\ IsSome(Unwrap(store[k]).startedAt)
            /\ clock - Unwrap(Unwrap(store[k]).startedAt)
                 >= Config(k[2]).max_processing_time

\* C1, amended: without invalidation the caller whose claim created the
\* record is the only one that runs the effect on an absent record; any other
\* caller starts the effect only when it reads an uncompleted snapshot of the
\* record at an age of max_processing_time or more, or when its own poll wait
\* has reached max_duration.  While neither has happened the effect has run
\* at most once, and exactly once as soon as a call has returned.
C1_NewStep(c) ==
    (GetsNew(c) /\ NoInvalidate(key[c])') =>
        \/ /\ pc[c] = "classify"
           /\ snap[c] = None
           /\ \A d \in Runners(key[c]) : how[d] # "fresh"
        \/ /\ pc[c] \in {"classify", "pollclassify"}
           /\ HoldsTimedOut(c)
        \/ PollExhausted(c)

C1_OnceWithoutTakeover ==
    \A k \in Keys :
        (NoInvalidate(k) /\ \A c \in On(k) : how[c] \notin {"timeout", "pollmax"}) =>
            /\ Cardinality(Runners(k)) <= 1
            /\ (\E c \in On(k) : pc[c] = "done") => Cardinality(Runners(k)) = 1

C1_AtMostOncePerWindow ==
    [][(\A c \in Callers : C1_NewStep(c)) /\ C1_OnceWithoutTakeover']_vars

\* C1 witness: a second caller ran the effect after reading the record timed
\* out, and a third one returned the memoized value.
C1_Witness ==
    \E c, d, e \in On(<<"a", "P">>) :
        /\ NoInvalidate(<<"a", "P">>)
        /\ how[c] = "fresh" /\ how[d] = "timeout"
        /\ GotDuplicate(e)

\* ------------------------------------------------------------- C2
\* C2 as stated: on a fresh key without invalidation, when the first
\* runner's completion was written before the record aged to
\* max_processing_time and no caller's poll wait reached max_duration, one
\* caller ran the effect and every returned call returned Ok.
C2_ExactlyOneRunner ==
    \A k \in Keys : \A r \in On(k) :
        (/\ NoInvalidate(k)
         /\ how[r] = "fresh" /\ Wrote(r)
         /\ Unwrap(store[k]).memoized = Some(ValueOf(r))
         /\ Unwrap(Unwrap(store[k]).completedAt) - Unwrap(Unwrap(store[k]).startedAt)
                < Config(k[2]).max_processing_time
         /\ \A c \in On(k) : how[c] # "pollmax")
        => /\ Runners(k) = {r}
           /\ \A c \in On(k) : pc[c] = "done" => result[c] = <<"Ok", ValueOf(r)>>

\* ------------------------------------------------------------- C3
\* C3: every Ok(v) that once returns is the value produced by an invocation
\* of the effect for the same key; when the effect ran once for the key, all
\* calls that returned Ok returned that one value.
C3_ReturnsEffectValue ==
    \A c \in Callers :
        (op[c] = "once" /\ pc[c] = "done" /\ result[c][1] = "Ok") =>
            /\ \E r \in Runners(key[c]) : result[c] = <<"Ok", ValueOf(r)>>
            /\ \A r \in Runners(key[c]) :
                  Runners(key[c]) = {r} => result[c] = <<"Ok", ValueOf(r)>>

\* C3 witness: the effect ran once, and the runner and a duplicate returned
\* its value.
C3_Witness ==
    \E r, c \in On(<<"a", "P">>) :
        /\ Runners(<<"a", "P">>) = {r}
        /\ c # r
        /\ result[r] = <<"Ok", ValueOf(r)>>
        /\ outcome[c] = <<"Duplicate", ValueOf(r)>>
        /\ result[c] = <<"Ok", ValueOf(r)>>

\* ------------------------------------------------------------- C4
\* C4: try_start_process answers Duplicate{v} only after the completion
\* callback of a caller on the same key has written v.
C4_DuplicateOnlyAfterCompletion ==
    \A c \in Callers :
        GotDuplicate(c) =>
            \E r \in On(key[c]) : Wrote(r) /\ outcome[c][2] = ValueOf(r)

\* C4 witness: a Duplicate answered inside the poll loop, and one answered on
\* the first observation.
C4_Witness ==
    \E c, d \in Callers :
        /\ GotDuplicate(c) /\ MetUncompleted(c)
        /\ GotDuplicate(d) /\ MetCompleted(d)

\* ------------------------------------------------------------- C5
\* The first claim of caller c met the record as the completion callback
\* with value v left it: that completion was the last request on the key,
\* and it was written to a claimed record (startedAt present).
MetCompletionOf(c, v) ==
    /\ op[c] = "once"
    /\ first[c].ev = <<"complete", v>>
    /\ IsSome(first[c].item)
    /\ IsSome(Unwrap(first[c].item).startedAt)
\* try_start_process of caller c is past the classification of its first
\* claim.
Classified(c) == op[c] = "once" /\ pc[c] # "classify"

\* C5: a try_start_process whose claim comes right after a completion
\* callback wrote v to the claimed record answers Duplicate{v}.
C5_CompleteThenDuplicate ==
    \A c \in Callers : \A v \in Callers :
        (MetCompletionOf(c, ValueOf(v)) /\ Classified(c)) =>
            outcome[c] = <<"Duplicate", ValueOf(v)>>

\* C5 witness: a caller got New, completed, and the next try_start_process
\* answered Duplicate with its value.
C5_Witness ==
    \E c, r \in Callers :
        /\ how[r] = "fresh" /\ Wrote(r)
        /\ MetCompletionOf(c, ValueOf(r))
        /\ outcome[c] = <<"Duplicate", ValueOf(r)>>

\* ------------------------------------------------------------- C6
\* C6: a try_start_process whose claim comes right after an invalidate of the
\* key answers New.
C6_InvalidateThenNew ==
    \A c \in Callers :
        (op[c] = "once" /\ first[c].ev = <<"inv">> /\ Classified(c)) =>
            Ran(c) /\ how[c] = "fresh"

\* C6 witness: a completed record was invalidated and the next
\* try_start_process got New (the record is uncompleted again although a
\* completion had been written).
C6_Witness ==
    \E c, r \in On(<<"a", "P">>) :
        /\ Wrote(r)
        /\ first[c].ev = <<"inv">>
        /\ Ran(c) /\ pc[c] = "run"
        /\ IsSome(store[<<"a", "P">>])
        /\ ~IsSome(Unwrap(store[<<"a", "P">>]).completedAt)

\* ------------------------------------------------------------- C7
\* C7: a try_start_process issued when the uncompleted record is at least
\* max_processing_time old answers New through the Timeout branch, never
\* Duplicate; and once the completion callback of such a takeover has written
\* R, the next try_start_process answers Duplicate{R}.
C7_TimeoutTakeover ==
    /\ \A c \in Callers :
          (op[c] = "once" /\ first[c].aged /\ Classified(c)) =>
              Ran(c) /\ how[c] = "timeout"
    /\ \A c \in Callers : \A t \in Callers :
          (how[t] = "timeout" /\ MetCompletionOf(c, ValueOf(t)) /\ Classified(c)) =>
              outcome[c] = <<"Duplicate", ValueOf(t)>>

\* C7 witness: the first runner never completed, a second caller took over
\* after the timeout and completed, a third one got the takeover's value.
C7_Witness ==
    \E a, t, c \in On(<<"a", "P">>) :
        /\ how[a] = "fresh" /\ pc[a] = "run"
        /\ first[t].aged /\ how[t] = "timeout" /\ Wrote(t)
        /\ MetCompletionOf(c, ValueOf(t))
        /\ outcome[c] = <<"Duplicate", ValueOf(t)>>

\* ------------------------------------------------------------- C8
\* The step is a step of caller c.
Acting(c) == pc'[c] # pc[c]

\* An item changes only in a step of a caller of the item's own scope.
C8_Frame ==
    \A k \in Keys : store'[k] # store[k] =>
        \A c \in Callers : Acting(c) => key'[c][2] = k[2]

\* The first call under a scope gets New whatever the other scope holds, and
\* a Duplicate carries a value completed under the caller's own scope.
C8_OwnScope ==
    /\ \A c \in Callers :
          (op[c] = "once" /\ first[c].ev = <<"none">> /\ Classified(c)) =>
              Ran(c) /\ how[c] = "fresh"
    /\ \A c \in Callers : GotDuplicate(c) =>
          \E r \in Callers :
              /\ Wrote(r) /\ outcome[c][2] = ValueOf(r)
              /\ key[r][1] = key[c][1] /\ key[r][2] = key[c][2]

\* C8: coordinators with distinct scopes do not dedupe against each other:
\* an operation under one scope leaves the items of the other scope
\* unchanged, each scope runs its own effect for the same id, and a Duplicate
\* carries the value of the caller's own scope.
C8_ScopesIndependent == [][C8_Frame /\ C8_OwnScope']_vars

\* C8 witness: both scopes ran and completed their own effect for signal a
\* and a later call under P got P's value.
C8_Witness ==
    \E p, c \in On(<<"a", "P">>) : \E q \in On(<<"a", "Q">>) :
        /\ Wrote(p) /\ Wrote(q)
        /\ IsSome(store[<<"a", "P">>]) /\ IsSome(store[<<"a", "Q">>])
        /\ Unwrap(store[<<"a", "P">>]).memoized = Some(ValueOf(p))
        /\ Unwrap(store[<<"a", "Q">>]).memoized = Some(ValueOf(q))
        /\ MetCompletionOf(c, ValueOf(p))
        /\ outcome[c] = <<"Duplicate", ValueOf(p)>>

\* ------------------------------------------------------------- C9
\* Every caller has called once and returned Ok.
AllReturnedOk ==
    \A c \in Callers : op[c] = "once" /\ pc[c] = "done" /\ result[c][1] = "Ok"
\* The signal keys the callers used, the callers that ran the effect.
UsedKeys == {key[c] : c \in {d \in Callers : op[d] = "once"}}
AllRunners == {c \in Callers : Ran(c)}
\* Some caller took over a record: Timeout branch or exhausted poll wait.
SomeTakeover == \E c \in Callers : how[c] \in {"timeout", "pollmax"}

\* C9 as stated: with k distinct ids called by several callers, all of which
\* returned, the effect ran exactly k times in total.
C9_RunsExactlyK == AllReturnedOk => Cardinality(AllRunners) = Cardinality(UsedKeys)

\* An item changes only in a step of a caller of the item's own signal id.
C9_Frame ==
    \A k \in Keys : store'[k] # store[k] =>
        \A c \in Callers : Acting(c) => key'[c][1] = k[1]

\* The effect ran for every id on which a call returned Ok; when all calls
\* returned Ok and no caller took over, it ran exactly once per id.
C9_RunsPerId ==
    /\ \A c \in Callers :
          (pc[c] = "done" /\ op[c] = "once" /\ result[c][1] = "Ok") =>
              \E d \in Callers : op[d] = "once" /\ key[d] = key[c] /\ Ran(d)
    /\ (AllReturnedOk /\ ~SomeTakeover) =>
          Cardinality(AllRunners) = Cardinality(UsedKeys)

\* C9, amended: operations on distinct signal ids do not interfere: a step
\* on one id leaves the items of the other ids unchanged, the effect runs for
\* every id called, and it runs exactly k times for k ids unless a caller
\* takes over a record (Timeout branch or exhausted poll wait).
C9_IdsIndependent == [][C9_Frame /\ C9_RunsPerId']_vars

\* C9 witness: two callers on a, one on b, all returned Ok, two runs.
C9_Witness ==
    /\ AllReturnedOk /\ ~SomeTakeover
    /\ UsedKeys = {<<"a", "P">>, <<"b", "P">>}
    /\ Cardinality(AllRunners) = 2
    /\ \E c \in Callers : GotDuplicate(c)

\* ------------------------------------------------------------- C10
\* The step in which f fails inside once: the error is returned, the table
\* stays as it was and receives no request.
C10_ErrStep ==
    \A c \in Callers :
        (pc[c] = "run" /\ result'[c] = <<"Err", "User">>) =>
            /\ store' = store
            /\ pc'[c] = "done"
            /\ last' = last

\* A caller whose first claim met an uncompleted record runs the effect only
\* through a takeover (Timeout branch, exhausted poll wait) or after the
\* record was deleted while it polled.
C10_LaterCallers ==
    \A d \in Callers :
        (op[d] = "once" /\ MetUncompleted(d) /\ Ran(d)
           /\ IsSome(Unwrap(first[d].item).startedAt)) =>
            how[d] \in {"timeout", "pollmax", "gone"}

\* C10: when f fails inside once, once returns the error and writes neither
\* a completion nor an invalidation; later callers see the record Running
\* until they take it over.
C10_ErrLeavesClaim == [][C10_ErrStep /\ C10_LaterCallers']_vars

\* C10 witness: f of the first runner failed, and a later caller met the
\* uncompleted record and took it over after the timeout.
C10_Witness ==
    \E c, d \in On(<<"a", "P">>) :
        /\ how[c] = "fresh" /\ result[c] = <<"Err", "User">>
        /\ MetUncompleted(d) /\ how[d] = "timeout"
        /\ NoInvalidate(<<"a", "P">>)

\* ------------------------------------------------------------- C11
\* The step is a claim of caller c: the first one of its call or one of its
\* poll loop.
ClaimStep(c) ==
    /\ pc[c] \in {"idle", "sleep"}
    /\ pc'[c] \in {"classify", "pollclassify"}
\* The step answers caller c with Outcome::Duplicate.
GetsDuplicate(c) == ~GotDuplicate(c) /\ GotDuplicate(c)'

\* The step that answers Duplicate{v}: v is the memoized value of the record
\* the claim returned, once returns Ok(v) at once, the effect is not started
\* and the table receives no request.
C11_DuplicateStep ==
    \A c \in Callers : GetsDuplicate(c) =>
        /\ pc[c] \in {"classify", "pollclassify"}
        /\ IsSome(snap[c])
        /\ IsSome(Unwrap(snap[c]).startedAt)
        /\ Unwrap(snap[c]).memoized = Some(outcome'[c][2])
        /\ pc'[c] = "done"
        /\ result'[c] = <<"Ok", outcome'[c][2]>>
        /\ how'[c] = "none"
        /\ store' = store
        /\ last' = last

\* A claim that returns a record carrying startedAt (the only records a
\* Duplicate is read from) leaves the table as it was.
C11_ClaimNoOp ==
    \A c \in Callers :
        (ClaimStep(c) /\ IsSome(snap'[c]) /\ IsSome(Unwrap(snap'[c]).startedAt)) =>
            store' = store

\* Once a call has answered Duplicate it stays returned: it never runs the
\* effect and writes nothing afterwards.
C11_StaysReturned ==
    \A c \in Callers : GotDuplicate(c) =>
        /\ pc'[c] = "done" /\ result'[c] = result[c] /\ outcome'[c] = outcome[c]
        /\ (store' # store => \E d \in Callers : d # c /\ Acting(d))

\* C11: when try_start_process inside once yields Duplicate{v}, once returns
\* v without invoking the effect and without issuing a completion or an
\* invalidation; the duplicate call leaves the table unchanged.
C11_DuplicateLeavesStore ==
    [][C11_DuplicateStep /\ C11_ClaimNoOp /\ C11_StaysReturned]_vars

\* C11 witness: a call answered Duplicate on its first observation and the
\* record is as the completion left it.
C11_Witness ==
    \E c, r \in On(<<"a", "P">>) :
        /\ Wrote(r) /\ GotDuplicate(c) /\ MetCompleted(c)
        /\ result[c] = <<"Ok", ValueOf(r)>>
        /\ store[<<"a", "P">>] = first[c].item

\* ------------------------------------------------------------- C12
\* A claim on a key without a row answers None and creates the row with the
\* claimant's now as startedAt; a claim on a key with a row answers that row
\* and, when the row carries startedAt, changes nothing.  No other row changes.
C12_ClaimStep ==
    \A c \in Callers : ClaimStep(c) =>
        /\ IF ~IsSome(store[key'[c]])
           THEN /\ snap'[c] = None
                /\ store'[key'[c]] = Some([KeyOnlyItem EXCEPT !.startedAt = Some(clock)])
           ELSE /\ snap'[c] = store[key'[c]]
                /\ IsSome(Unwrap(store[key'[c]]).startedAt) => store'[key'[c]] = store[key'[c]]
        /\ \A j \in Keys : j # key'[c] => store'[j] = store[j]

\* Among the calls on a key that was never invalidated, the first claim of
\* exactly one met no row; the first claim of every other one met the row
\* with the startedAt the row still carries.
C12_OneWinner ==
    \A k \in Keys : (NoInvalidate(k) /\ On(k) # {}) =>
        \E w \in On(k) :
            /\ ~IsSome(first[w].item)
            /\ \A d \in On(k) \ {w} :
                  /\ IsSome(first[d].item)
                  /\ Unwrap(first[d].item).startedAt = Unwrap(store[k]).startedAt

\* C12: the claim is atomic: of the claims on a key without a row exactly one
\* answers None and creates the row with its own now as startedAt; every other
\* claim answers the existing row carrying the winner's startedAt.
C12_ClaimAtomic == [][C12_ClaimStep /\ C12_OneWinner']_vars

\* C12 witness: three calls on one key; one met no row, one claimed while the
\* winner's answer was still in flight, one claimed max_processing_time later
\* and met the winner's startedAt.
C12_Witness ==
    \E w, d, e \in On(<<"a", "P">>) :
        /\ NoInvalidate(<<"a", "P">>)
        /\ ~IsSome(first[w].item) /\ first[w].ev = <<"none">>
        /\ d # w /\ first[d].ev = <<"claim">> /\ ~first[d].aged
        /\ first[e].aged
        /\ Unwrap(first[e].item).startedAt = Some(0)

\* ------------------------------------------------------------- C13
\* Row k exists and carries startedAt.
Claimed(k) == IsSome(store[k]) /\ IsSome(Unwrap(store[k]).startedAt)

\* A step that keeps a row keeps its startedAt, and a claim hands the
\* claimant the startedAt the row carries.
C13_Step ==
    /\ \A k \in Keys : (Claimed(k) /\ IsSome(store'[k])) =>
          Unwrap(store'[k]).startedAt = Unwrap(store[k]).startedAt
    /\ \A c \in Callers : (ClaimStep(c) /\ Claimed(key'[c])) =>
          /\ IsSome(snap'[c])
          /\ Unwrap(snap'[c]).startedAt = Unwrap(store[key'[c]]).startedAt

\* On a key that was never invalidated the row carries the now of the claim
\* that created it whatever was written since: takeovers, poll claims and
\* completions leave it.
C13_OriginalClaimant ==
    \A k \in Keys : (NoInvalidate(k) /\ IsSome(store[k])) =>
        /\ Claimed(k)
        /\ \A c \in On(k) : IsSome(first[c].item) =>
              Unwrap(first[c].item).startedAt = Unwrap(store[k]).startedAt

\* C13: from the creation of a row to its deletion startedAt never changes,
\* under claims (takeovers after Timeout and poll iterations included) and
\* completions; every observer sees the original claimant's timestamp.
C13_StartedAtImmutable == [][C13_Step /\ C13_OriginalClaimant']_vars

\* C13 witness: the row was created at 0, taken over after the timeout and
\* completed by the takeover at a later instant; it still carries startedAt 0.
C13_Witness ==
    \E a, t \in On(<<"a", "P">>) :
        /\ NoInvalidate(<<"a", "P">>)
        /\ how[a] = "fresh" /\ how[t] = "timeout" /\ Wrote(t)
        /\ clock >= Config("P").max_processing_time
        /\ Unwrap(store[<<"a", "P">>]).startedAt = Some(0)
        /\ Unwrap(store[<<"a", "P">>]).memoized = Some(ValueOf(t))

\* ------------------------------------------------------------- C14
\* The record the last claim of caller c returned is completed: it carries
\* startedAt, completedAt and the memoized value v.
HoldsCompleted(c, v) ==
    /\ IsSome(snap[c])
    /\ IsSome(Unwrap(snap[c]).startedAt)
    /\ IsSome(Unwrap(snap[c]).completedAt)
    /\ Unwrap(snap[c]).memoized = Some(v)

\* C14: a completed record is classified Completed whether or not its
\* expiresOn has elapsed or its age has reached max_processing_time: the
\* try_start_process that observes it, on its first claim or in the poll
\* loop, answers Duplicate with the memoized value and never New.
C14_CompletedWins ==
    [][\A c \in Callers : \A v \in Callers :
          (pc[c] \in {"classify", "pollclassify"} /\ Acting(c)
             /\ HoldsCompleted(c, ValueOf(v))) =>
              /\ outcome'[c] = <<"Duplicate", ValueOf(v)>>
              /\ pc'[c] = "done"
              /\ how'[c] = "none"]_vars

\* C14 witness: a record completed max_processing_time after its claim,
\* with an expiresOn that has elapsed, was answered with Duplicate.
C14_Witness ==
    \E c \in On(<<"a", "P">>) :
        /\ GotDuplicate(c) /\ MetCompleted(c)
        /\ IsSome(Unwrap(first[c].item).startedAt)
        /\ Unwrap(Unwrap(first[c].item).completedAt)
             - Unwrap(Unwrap(first[c].item).startedAt) >= Config("P").max_processing_time
        /\ IsSome(Unwrap(first[c].item).expiresOn)
        /\ Unwrap(Unwrap(first[c].item).expiresOn) * MillisPerSec <= clock
        /\ outcome[c][2] = Unwrap(Unwrap(first[c].item).memoized)

\* ------------------------------------------------------------- C15
\* try_start_process of caller c has not returned yet.
Pending(c) == pc[c] \in {"classify", "sleep", "pollclassify"}
\* try_start_process of caller c has returned New, Duplicate or an error.
Returned(c) ==
    /\ pc[c] \in {"run", "done"}
    /\ \/ Ran(c) \/ GotDuplicate(c)
       \/ (Len(outcome[c]) = 2 /\ outcome[c][1] = "Err")

\* The number of claims a poll loop can issue before its wait reaches
\* max_duration with the shortest delay of 1 ms.
MaxAttempts(c) == max_duration(Cfg(c).poll_strategy)

\* Every call returns, and the poll loop is bounded.
C15_Returns == <>[](\A c \in Callers : op[c] = "once" => Returned(c))
C15_LoopBounded == \A c \in Callers : poll[c].attempt <= MaxAttempts(c)
\* Without a failure of the backend or of the effect and without invalidate,
\* every once call that has returned has returned Ok.
C15_AllOk ==
    \A c \in Callers :
        (/\ op[c] = "once" /\ pc[c] = "done"
         /\ NoInvalidate(key[c])
         /\ \A d \in On(key[c]) :
               result[d] # <<"Err", "Backend">> /\ result[d] # <<"Err", "User">>)
        => result[c][1] = "Ok"

\* C15: every try_start_process eventually returns New, Duplicate or an
\* error under every interleaving, given that time advances and the backend
\* answers; the poll loop cannot iterate forever, and without failures every
\* concurrent once call returns successfully.
C15_CallsTerminate == C15_Returns /\ [][C15_LoopBounded' /\ C15_AllOk']_vars

\* C15 witness: a caller left the poll loop after its last possible claim,
\* beyond the horizon of the other callers.
C15_Witness ==
    \E c \in Callers :
        /\ how[c] = "pollmax" /\ clock > MaxTime
        /\ \E d \in Callers : GotDuplicate(d) /\ MetUncompleted(d)

\* ------------------------------------------------------------- C16
\* No completion was ever written for the key of caller c, and no claim of
\* caller c was rejected.
NeverCompleted(c) ==
    /\ \A r \in On(key[c]) : ~Wrote(r)
    /\ result[c] # <<"Err", "Backend">>
\* Caller c is inside a sleep of its poll loop.
Asleep(c) == pc[c] = "sleep" /\ poll[c].wake > clock

\* C16 as stated, the deadline: a caller is not waiting any more once the
\* record's age has reached max_processing_time or its own poll time has
\* reached max_duration.
C16_NewAtDeadline ==
    \A c \in Callers : (Asleep(c) /\ Claimed(key[c])) =>
        /\ clock - poll[c].start_time < max_duration(Cfg(c).poll_strategy)
        /\ clock - Unwrap(Unwrap(store[key[c]]).startedAt) < Cfg(c).max_processing_time

\* The key does not stay blocked: as long as no completion is written, every
\* started call ends up with New.
C16_EventuallyNew ==
    <>[](\A c \in Callers : (op[c] = "once" /\ NeverCompleted(c)) => Ran(c))

\* The two deadlines are read when an answer is classified and when a sleep
\* ends: a classification that reads the uncompleted record at an age of
\* max_processing_time or more answers New, and so does a wake-up at which
\* the poll time has reached max_duration, without a further claim.
C16_DeadlineStep ==
    \A c \in Callers : Acting(c) =>
        /\ (pc[c] \in {"classify", "pollclassify"} /\ HoldsTimedOut(c)) =>
              Ran(c)' /\ how'[c] = "timeout"
        /\ PollExhausted(c) =>
              Ran(c)' /\ how'[c] = "pollmax" /\ store' = store /\ last' = last

\* C16, amended: when the caller that obtained New never writes a
\* completion the key does not stay blocked: every later try_start_process
\* on it eventually returns New, at the first classification that reads the
\* record at an age of max_processing_time or more, or at the first wake-up
\* at which its own poll time has reached max_duration.
C16_NotBlocked == C16_EventuallyNew /\ [][C16_DeadlineStep]_vars

\* C16 witness: the first runner holds the claim without completing; one
\* later caller gave up polling, another one read the record timed out.
C16_Witness ==
    \E a, c, d \in On(<<"a", "P">>) :
        /\ how[a] = "fresh" /\ pc[a] = "run"
        /\ NeverCompleted(c) /\ MetUncompleted(c) /\ how[c] = "pollmax"
        /\ MetUncompleted(d) /\ how[d] = "timeout"

\* ------------------------------------------------------------- C17
\* Row k is a claimed row completed with the value v.
CompletedWith(k, v) ==
    /\ Claimed(k)
    /\ IsSome(Unwrap(store[k]).completedAt)
    /\ Unwrap(store[k]).memoized = Some(v)

\* A wake-up of the poll loop before max_duration that finds the row
\* completed with v reads that completion, and the classification of that
\* answer returns Duplicate{v}: once returns v and the effect does not run.
C17_WakeStep ==
    \A c \in Callers : \A v \in Callers :
        /\ (pc[c] = "sleep" /\ ClaimStep(c) /\ CompletedWith(key[c], ValueOf(v))) =>
              /\ clock - poll[c].start_time < max_duration(Cfg(c).poll_strategy)
              /\ HoldsCompleted(c, ValueOf(v))'
        /\ (pc[c] = "pollclassify" /\ Acting(c) /\ HoldsCompleted(c, ValueOf(v))) =>
              /\ outcome'[c] = <<"Duplicate", ValueOf(v)>>
              /\ result'[c] = <<"Ok", ValueOf(v)>>
              /\ pc'[c] = "done" /\ how'[c] = "none"

\* A completion written for a key that is never invalidated stays: the row
\* is completed with the value of a caller that completed.
C17_CompletionStays ==
    \A k \in Keys : (NoInvalidate(k) /\ \E r \in On(k) : Wrote(r)) =>
        \E r \in On(k) : Wrote(r) /\ CompletedWith(k, ValueOf(r))

\* C17: a late duplicate inherits the runner's result: when a completion
\* with value v is written while a caller waits in the poll loop and the
\* caller's poll time is below max_duration at its next wake-up, the caller
\* returns Duplicate{v} and once returns v without running the effect.
C17_LateDuplicate == [][C17_WakeStep /\ C17_CompletionStays']_vars

\* C17 witness: a caller met the record uncompleted, slept, the runner
\* completed meanwhile, and the caller's next claim answered Duplicate with
\* the runner's value.
C17_Witness ==
    \E r, c \in On(<<"a", "P">>) :
        /\ how[r] = "fresh" /\ Wrote(r)
        /\ MetUncompleted(c) /\ first[c].ev = <<"claim">>
        /\ outcome[c] = <<"Duplicate", ValueOf(r)>>
        /\ result[c] = <<"Ok", ValueOf(r)>>
        /\ Runners(<<"a", "P">>) = {r}

\* ------------------------------------------------------------- C18
\* The time caller c has spent in its poll loop.
PollTime(c) == clock - poll[c].start_time
\* The step takes caller c out of its poll loop.
LeavesLoop(c) ==
    /\ pc[c] \in {"sleep", "pollclassify"}
    /\ pc'[c] \in {"run", "done"}

\* C18 as stated: the time a try_start_process spends in the poll loop, from
\* entering it to returning, never exceeds max_duration.
C18_WaitWithinMax ==
    [][\A c \in Callers :
          LeavesLoop(c) => PollTime(c) <= Cfg(c).poll_strategy.max_duration]_vars

\* The end of a sleep: with the poll time at max_duration or beyond the call
\* returns New without a claim, otherwise it issues the next claim.
C18_WakeStep ==
    \A c \in Callers : (pc[c] = "sleep" /\ Acting(c)) =>
        IF PollTime(c) >= Cfg(c).poll_strategy.max_duration
        THEN Ran(c)' /\ how'[c] = "pollmax" /\ store' = store
        ELSE /\ pc'[c] = "pollclassify"
             /\ poll'[c] = [poll[c] EXCEPT !.attempt = @ + 1]

\* The start of a sleep: the loop is entered at the instant of the first
\* classification, and a sleep lasts the delay of the strategy, delay for
\* Linear and base_delay * multiplier^attempt for Backoff.
C18_SleepStep ==
    \A c \in Callers : (pc[c] \in {"classify", "pollclassify"} /\ pc'[c] = "sleep") =>
        /\ poll'[c].start_time = IF pc[c] = "classify" THEN clock ELSE poll[c].start_time
        /\ poll'[c].attempt = IF pc[c] = "classify" THEN 0 ELSE poll[c].attempt
        /\ poll'[c].wake = clock +
              IF Cfg(c).poll_strategy.kind = "Linear" THEN Cfg(c).poll_strategy.delay
              ELSE Cfg(c).poll_strategy.delay
                     * Pow(Cfg(c).poll_strategy.multiplier, poll'[c].attempt)

\* C18, amended: for Linear and for Backoff the poll loop gives up at the
\* first wake-up at which the time since it was entered has reached
\* max_duration: the call then returns New and issues no further claim.  The
\* poll time is compared only when a sleep ends, so the wait itself can be
\* longer than max_duration.
C18_GivesUpAtWake == [][C18_WakeStep /\ C18_SleepStep]_vars

\* C18 witness: a caller under the Backoff strategy slept 1 ms, claimed,
\* slept 2 ms and gave up at its second wake-up.
C18_Witness ==
    \E c \in On(<<"a", "Q">>) :
        /\ MetUncompleted(c) /\ how[c] = "pollmax"
        /\ clock = Config("Q").poll_strategy.max_duration

\* ------------------------------------------------------------- C19
\* The call of caller c ended with the error of a rejected claim.
BackendFailed(c) == result[c] = <<"Err", "Backend">>

\* The step in which a claim fails: the call is in its first claim or at a
\* wake-up of the poll loop, it returns the error at once, the effect is not
\* started and the table receives no completion and no other request.
C19_FailStep ==
    \A c \in Callers : (~BackendFailed(c) /\ BackendFailed(c)') =>
        /\ pc[c] \in {"idle", "sleep"}
        /\ pc'[c] = "done"
        /\ outcome'[c] = <<"Err", "Backend">>
        /\ how'[c] = "none"
        /\ store' = store
        /\ last' = last

\* The failed call is over: it is not retried, it issues no request later.
C19_Terminal ==
    \A c \in Callers : BackendFailed(c) =>
        /\ pc'[c] = "done" /\ result'[c] = result[c] /\ how'[c] = "none"
        /\ (store' # store => \E d \in Callers : d # c /\ Acting(d))

\* The effect runs only in a call whose first claim succeeded, and a call
\* that comes after failed ones on a key without a row starts the protocol
\* afresh: its claim creates the row and it gets New.
C19_FreshStart ==
    /\ \A c \in Callers : Ran(c) => first[c].ev # <<"unset">>
    /\ \A d \in Callers :
          (op[d] = "once" /\ first[d].ev = <<"none">> /\ Classified(d)) =>
              Ran(d) /\ how[d] = "fresh"

\* C19: a backend failure is terminal for the call and not retried: a failed
\* claim makes try_start_process return the error after one attempt, once
\* does not invoke the effect and writes no completion; a failing claim in
\* the poll loop ends the call likewise, and a later call re-enters the
\* protocol from the start.
C19_FailureIsTerminal == [][C19_FailStep /\ C19_Terminal /\ C19_FreshStart']_vars

\* C19 witness: the first call failed on its first claim, the second call
\* then got New on the untouched key, the third one polled and failed on a
\* claim of its poll loop.
C19_Witness ==
    \E a, b, c \in Callers :
        /\ op[a] = "once" /\ BackendFailed(a) /\ first[a].ev = <<"unset">>
        /\ first[b].ev = <<"none">> /\ how[b] = "fresh"
        /\ MetUncompleted(c) /\ BackendFailed(c)
        /\ key[a] = key[b] /\ key[b] = key[c]

\* ------------------------------------------------------------- C20
\* decode_process returns an error for the item.
Undecodable(item) == DecodeFails(item) \/ JsonFails(item)

\* A claim that returns a row that cannot be decoded leaves the stored row
\* as it was.
C20_RowUnchanged ==
    \A c \in Callers :
        (ClaimStep(c) /\ IsSome(snap'[c]) /\ Undecodable(Unwrap(snap'[c]))) =>
            store' = store
\* try_start_process answers a row that cannot be decoded with an error of
\* the Decoding kind.
C20_DecodingKind ==
    \A c \in Callers :
        (pc[c] \in {"classify", "pollclassify"} /\ Acting(c)
           /\ IsSome(snap[c]) /\ Undecodable(Unwrap(snap[c]))) =>
            outcome'[c] = <<"Err", "Decoding">>

\* C20 as stated: when the row a claim returns cannot be decoded (a required
\* attribute is missing, or the stored JSON does not parse),
\* try_start_process returns an error of the Decoding kind and the stored
\* row is left unchanged.
C20_DecodingFailure == [][C20_RowUnchanged /\ C20_DecodingKind]_vars

\* ------------------------------------------------------------- C21
\* The parameters the spec requires of a constructed strategy.
ValidStrategy(strategy) ==
    /\ strategy.delay > 0
    /\ strategy.multiplier >= 1
    /\ strategy.max_duration >= strategy.delay

\* C21 as stated: PollStrategy::linear and PollStrategy::backoff reject a
\* zero delay, a multiplier below 1.0 and a max_duration below the delay, so
\* no coordinator ever runs its poll loop with a strategy that violates
\* delay > 0, multiplier >= 1.0 and max_duration >= delay.
C21_PollsWithValidStrategy ==
    \A c \in Callers :
        pc[c] \in {"sleep", "pollclassify"} => ValidStrategy(Cfg(c).poll_strategy)

\* ------------------------------------------------------------- C22
\* The step is the invalidate(id) call of caller c.
InvalidateStep(c) == pc[c] = "idle" /\ op'[c] = "inv"

\* An invalidate succeeds whether the row exists or not; on a key without a
\* row it leaves the whole table as it was, on a key with a row it removes
\* that row and nothing else.
C22_InvalidateStep ==
    \A c \in Callers : InvalidateStep(c) =>
        /\ result'[c] = <<"Ok", 0>>
        /\ store'[key'[c]] = None
        /\ \A k \in Keys : k # key'[c] => store'[k] = store[k]
        /\ (store[key'[c]] = None => store' = store)

\* Applying the delete a second time to the state the first one left gives
\* that same state.
C22_TwiceIsOnce ==
    \A c \in Callers : InvalidateStep(c) =>
        [store' EXCEPT ![TableKey(key'[c])] = DeleteUpdate(@)] = store'

\* C22: invalidate is idempotent: invalidating a key with no row succeeds
\* without error and leaves the store unchanged, and invalidate applied twice
\* leaves the same state as applied once.
C22_InvalidateIdempotent == [][C22_InvalidateStep /\ C22_TwiceIsOnce]_vars

\* C22 witness: the first caller holds New and has not completed, the second
\* caller invalidated the row and the third invalidated the key again, with
\* no row left to delete; both calls returned Ok.
C22_Witness ==
    \E a, b, c \in Callers :
        /\ a < b /\ b < c
        /\ Ran(a) /\ pc[a] = "run"
        /\ op[b] = "inv" /\ op[c] = "inv"
        /\ key[a] = key[b] /\ key[b] = key[c]
        /\ result[b] = <<"Ok", 0>> /\ result[c] = <<"Ok", 0>>
        /\ store[key[a]] = None

\* ------------------------------------------------------------- C23
\* The reference classification of a record p at the instant now.
Reference(p, now, max_processing_time) ==
    CASE IsSome(p.memoized) /\ IsSome(p.completed_at) ->
            <<"Completed", Unwrap(p.memoized)>>
      [] ~(IsSome(p.memoized) /\ IsSome(p.completed_at))
         /\ IsSome(p.expires_on) /\ now >= Unwrap(p.expires_on) ->
            <<"Expired">>
      [] ~(IsSome(p.memoized) /\ IsSome(p.completed_at))
         /\ ~(IsSome(p.expires_on) /\ now >= Unwrap(p.expires_on))
         /\ ~IsSome(p.completed_at)
         /\ now - p.started_at >= max_processing_time ->
            <<"Timeout">>
      [] OTHER -> <<"Running">>

\* The instants and the values of max_processing_time the classifier is
\* compared on.
Instants == 0..(MaxTime + 1)
Limits == {Config(s).max_processing_time : s \in Scopes}

\* The record caller c holds, decoded.
Held(c) == decode_process(Unwrap(snap[c]))
HoldsRecord(c) ==
    /\ pc[c] \in {"classify", "pollclassify"}
    /\ IsSome(snap[c])
    /\ ~Undecodable(Unwrap(snap[c]))

\* On every record the first claim of a call returns, for every instant and
\* every max_processing_time, Process::status is the reference function.
C23_StatusIsReference ==
    \A c \in Callers : (Acting(c) /\ pc[c] = "classify" /\ HoldsRecord(c)) =>
        LET p == Held(c)
        IN  \A t \in Instants, m \in Limits : status(p, t, m) = Reference(p, t, m)

\* A record past its TTL and past max_processing_time is Expired, and both
\* comparisons include the boundary.
C23_Boundaries ==
    \A c \in Callers : (Acting(c) /\ HoldsRecord(c)) =>
        LET p == Held(c)
            m == Cfg(c).max_processing_time
        IN  /\ (~IsSome(p.completed_at) /\ IsSome(p.expires_on)
                  /\ clock >= Unwrap(p.expires_on) /\ clock - p.started_at >= m) =>
                status(p, clock, m) = <<"Expired">>
            /\ (~IsSome(p.completed_at) /\ p.expires_on = Some(clock)) =>
                status(p, clock, m) = <<"Expired">>
            /\ (~IsSome(p.completed_at) /\ ~IsSome(p.expires_on)
                  /\ clock - p.started_at = m) =>
                status(p, clock, m) = <<"Timeout">>

\* The coordinator acts on the reference classification of the record it
\* holds at the instant it classifies.
C23_ActsOnReference ==
    \A c \in Callers : (Acting(c) /\ HoldsRecord(c)) =>
        LET st == Reference(Held(c), clock, Cfg(c).max_processing_time)
        IN  /\ st[1] = "Completed" => outcome'[c] = <<"Duplicate", st[2]>>
            /\ st[1] = "Expired" => Ran(c)' /\ how'[c] = "expired"
            /\ st[1] = "Timeout" => Ran(c)' /\ how'[c] = "timeout"
            /\ st[1] = "Running" => pc'[c] = "sleep"

\* C23: the classifier equals the reference function of (record, now,
\* max_processing_time): Completed(memoized) if memoized and completed_at are
\* both set; otherwise Expired if expires_on is set and now >= expires_on;
\* otherwise Timeout if completed_at is unset and now - started_at >=
\* max_processing_time; otherwise Running.  A record both past expires_on and
\* past max_processing_time classifies as Expired, and both comparisons are
\* inclusive.
C23_ClassifierIsReference ==
    [][C23_StatusIsReference /\ C23_Boundaries /\ C23_ActsOnReference]_vars

\* C23 witness: the first claim of a caller met an uncompleted record that
\* was max_processing_time old and past its expires_on: the caller read
\* Expired and took over.
C23_Witness ==
    \E c \in Callers :
        /\ how[c] = "expired"
        /\ first[c].aged
        /\ Unwrap(first[c].item).expiresOn = Some(0)
        /\ Unwrap(first[c].item).completedAt = None

\* ------------------------------------------------------------- C24
\* The lifecycle state caller c read in the step, as its next move shows
\* it: Duplicate for Completed, New on the expired or the timeout branch,
\* another sleep for Running.
Observed(c) ==
    IF GotDuplicate(c) THEN <<"Completed", outcome[c][2]>>
    ELSE IF Ran(c) /\ how[c] = "expired" THEN <<"Expired">>
    ELSE IF Ran(c) /\ how[c] = "timeout" THEN <<"Timeout">>
    ELSE IF pc[c] = "sleep" THEN <<"Running">>
    ELSE <<"other">>

\* Callers c and d hold the same record under the same max_processing_time.
SameInputs(c, d) ==
    /\ HoldsRecord(c) /\ HoldsRecord(d)
    /\ Held(c) = Held(d)
    /\ Cfg(c).max_processing_time = Cfg(d).max_processing_time

RowOf(k) == IF IsSome(store[k]) THEN Unwrap(store[k]) ELSE KeyOnlyItem

\* A row carries completedAt exactly when it carries memoized.
C25_Together ==
    \A k \in Keys : IsSome(RowOf(k).completedAt) <=> IsSome(RowOf(k).memoized)

\* The two attributes appear in one step and disappear in one step, and only
\* a completion or the deletion of the row touches them.
C25_Step ==
    \A k \in Keys : store'[k] # store[k] =>
        /\ (IsSome(RowOf(k).completedAt') # IsSome(RowOf(k).completedAt))
             <=> (IsSome(RowOf(k).memoized') # IsSome(RowOf(k).memoized))
        /\ (RowOf(k).completedAt' # RowOf(k).completedAt
              \/ RowOf(k).memoized' # RowOf(k).memoized) =>
                 last'[k][1] \in {"complete", "inv"}

\* C25: in every reachable state of the store a row has completed_at set if
\* and only if it has memoized set: one atomic completion writes the two
\* together and neither is ever set or cleared alone.
C25_CompletedIffMemoized == [][C25_Together' /\ C25_Step]_vars

\* C25 witness: a completed row was invalidated, the signal was claimed
\* again and completed again: the row carries the second completion's
\* timestamp and value.
C25_Witness ==
    \E a, b, c \in Callers :
        /\ a < b /\ b < c
        /\ Wrote(a) /\ op[b] = "inv" /\ Wrote(c) /\ how[c] = "fresh"
        /\ key[a] = key[b] /\ key[b] = key[c]
        /\ IsSome(RowOf(key[c]).completedAt)
        /\ RowOf(key[c]).memoized = Some(ValueOf(c))

\* ------------------------------------------------------------- C26
\* C26 as stated: a row whose expiresOn is set satisfies expires_on >=
\* completed_at, with completedAt as stored in milliseconds and expiresOn as
\* stored in whole seconds and decoded to an instant, for every ttl >= 0 and
\* across repeated completions of the row.
C26_ExpiresAfterCompletion ==
    \A k \in Keys :
        (IsSome(RowOf(k).expiresOn) /\ IsSome(RowOf(k).completedAt)) =>
            Unwrap(RowOf(k).expiresOn) * MillisPerSec >= Unwrap(RowOf(k).completedAt)

\* ------------------------------------------------------------- C27
\* The step is the completion callback of caller c.
CompletionStep(c) == pc[c] = "run" /\ pc'[c] = "done" /\ result'[c][1] = "Ok"

\* Whatever the row was (absent, claimed, completed by someone else), the
\* completion leaves it with the caller's value and the instant of the
\* write, and touches neither startedAt nor another row.
C27_Overwrites ==
    \A c \in Callers : CompletionStep(c) =>
        /\ RowOf(key[c]).memoized' = Some(ValueOf(c))
        /\ RowOf(key[c]).completedAt' = Some(clock)
        /\ RowOf(key[c]).startedAt' = RowOf(key[c]).startedAt
        /\ \A k \in Keys : k # key[c] => store'[k] = store[k]

\* A try_start_process whose first claim met the row as the completion with
\* value v left it answers Duplicate with v, whichever completions came
\* before that one.
C27_LastValueServed ==
    \A d \in Callers : \A c \in Callers :
        (MetCompletionOf(d, ValueOf(c)) /\ Classified(d)) =>
            outcome[d] = <<"Duplicate", ValueOf(c)>>

\* C27: completion is unconditional and last-write-wins: whatever the row's
\* state, a completion with value v sets memoized = v and completed_at =
\* now; a runner that outlived max_processing_time and completes after a
\* takeover has completed with w replaces w by v, and later try_start calls
\* return Duplicate with v.
C27_LastWriteWins == [][C27_Overwrites /\ C27_LastValueServed']_vars

\* C27 witness: the first runner outlived max_processing_time, a second
\* caller took over and completed, then the first runner completed; the row
\* carries the first runner's value and a third caller got it as Duplicate.
C27_Witness ==
    \E a, t, d \in Callers :
        /\ how[a] = "fresh" /\ Wrote(a)
        /\ how[t] = "timeout" /\ Wrote(t)
        /\ key[a] = key[t] /\ key[t] = key[d]
        /\ first[d].ev = <<"complete", ValueOf(a)>>
        /\ IsSome(first[d].item) /\ IsSome(Unwrap(first[d].item).startedAt)
        /\ RowOf(key[a]).memoized = Some(ValueOf(a))
        /\ outcome[d] = <<"Duplicate", ValueOf(a)>>

\* ------------------------------------------------------------- C28
\* The step ends a sleep of the poll loop of caller c (the backend answers).
WakeStep(c) == pc[c] = "sleep" /\ Acting(c) /\ ~BackendFailed(c)'

\* The sleep is over before anything else happens, and the elapsed time is
\* compared before the claim: at max_duration or beyond the call returns New
\* and the table receives no request, below it the claim is issued.
C28_CheckThenClaim ==
    \A c \in Callers : WakeStep(c) =>
        /\ clock >= poll[c].wake
        /\ IF PollTime(c) >= max_duration(Cfg(c).poll_strategy)
           THEN /\ Ran(c)' /\ how'[c] = "pollmax" /\ pc'[c] = "run"
                /\ store' = store /\ last' = last
           ELSE /\ pc'[c] = "pollclassify"
                /\ last'[key[c]] = <<"claim">>
                /\ snap'[c] = store[key[c]]

\* C28: in each poll iteration the max_duration check comes after the sleep
\* and before the claim: if the elapsed poll time is >= max_duration the
\* loop returns New without issuing another claim, whatever the record's
\* state is at that moment, still Running or already Completed by the peer.
C28_GiveUpBeforeClaim == [][C28_CheckThenClaim]_vars

\* C28 witness: the peer completed less than max_duration after it had
\* created the record, so before the poller's time was up, no invalidation
\* took place, and the poller still gave up and got New: it did not look at
\* the completed record.
C28_Witness ==
    \E a, c \in Callers :
        /\ how[a] = "fresh" /\ Wrote(a)
        /\ key[a] = key[c] /\ NoInvalidate(key[c])
        /\ how[c] = "pollmax" /\ pc[c] = "run"
        /\ RowOf(key[c]).memoized = Some(ValueOf(a))
        /\ Unwrap(RowOf(key[c]).completedAt)
             < Unwrap(RowOf(key[c]).startedAt) + max_duration(Cfg(c).poll_strategy)

\* ------------------------------------------------------------- C29
\* The step is a claim of the poll loop of caller c on a key whose row an
\* invalidate has deleted, with no request on the key since.
ClaimsInvalidated(c) ==
    /\ pc[c] = "sleep" /\ pc'[c] = "pollclassify"
    /\ last[key[c]] = <<"inv">>

\* That claim finds no row and creates one whose startedAt is the instant of
\* the claim and which carries nothing else.
C29_ClaimCreates ==
    \A c \in Callers : ClaimsInvalidated(c) =>
        /\ store[key[c]] = None
        /\ snap'[c] = None
        /\ store'[key[c]] = Some([KeyOnlyItem EXCEPT !.startedAt = Some(clock)])

\* A poll claim that found no row makes the call return New.
C29_ReturnsNew ==
    \A c \in Callers : (pc[c] = "pollclassify" /\ snap[c] = None /\ Acting(c)) =>
        /\ Ran(c)' /\ how'[c] = "gone" /\ pc'[c] = "run"
        /\ store' = store

\* C29: if the row is invalidated while a caller is waiting in the poll
\* loop, the caller's next poll claim finds no row, creates a new row with
\* started_at equal to that poll's now, and the caller returns New.
C29_InvalidatedMidWait == [][C29_ClaimCreates /\ C29_ReturnsNew]_vars

\* C29 witness: a caller that had met a running record was in its poll loop
\* when the row was invalidated; its poll claim created the row anew at a
\* later instant and the caller holds New.
C29_Witness ==
    \E b, c \in Callers :
        /\ op[b] = "inv" /\ key[b] = key[c]
        /\ MetUncompleted(c) /\ how[c] = "gone" /\ pc[c] = "run"
        /\ last[key[c]] = <<"claim">>
        /\ RowOf(key[c]).completedAt = None
        /\ IsSome(RowOf(key[c]).startedAt)
        /\ Unwrap(RowOf(key[c]).startedAt) > Unwrap(Unwrap(first[c].item).startedAt)

\* ------------------------------------------------------------- C30
\* C30 as stated: a claim issued against an existing row, by
\* try_start_process or by a poll iteration, only observes: it leaves every
\* attribute of the row unchanged; only a claim on an absent row writes to
\* the store.
C30_ClaimObserves ==
    [][\A c \in Callers : ClaimStep(c) =>
          /\ (IsSome(store[key'[c]]) => store' = store)
          /\ (store' # store => store[key'[c]] = None)]_vars

\* ------------------------------------------------------------- C31
\* The coordinator of caller c has max_processing_time = 0.
ZeroLimit(c) == op[c] = "once" /\ Cfg(c).max_processing_time = 0

\* The classification of the first claim under max_processing_time = 0: an
\* uncompleted record gives New on the timeout branch, a completed record
\* gives Duplicate with its value.
C31_Step ==
    \A c \in Callers :
        (ZeroLimit(c) /\ pc[c] = "classify" /\ Acting(c) /\ HoldsRecord(c)) =>
            IF IsSome(Held(c).completed_at)
            THEN outcome'[c] = <<"Duplicate", Unwrap(Held(c).memoized)>>
            ELSE Ran(c)' /\ how'[c] = "timeout" /\ pc'[c] = "run"

\* No call under max_processing_time = 0 is ever in the poll loop.
C31_NeverPolls ==
    \A c \in Callers : ZeroLimit(c) => pc[c] \notin {"sleep", "pollclassify"}

\* C31: with max_processing_time = 0 every try_start on a key whose row
\* exists and is uncompleted returns New immediately without entering the
\* poll loop, while a completed row still yields Duplicate.
C31_ImmediateTakeover == [][C31_Step /\ C31_NeverPolls']_vars

\* C31 witness: under max_processing_time = 0 the second caller took over
\* the record the first had claimed at that same instant, and after a
\* completion the third caller got Duplicate.
C31_Witness ==
    \E a, b, c \in On(<<"a", "T">>) :
        /\ how[a] = "fresh" /\ how[b] = "timeout"
        /\ first[b].item = Some([KeyOnlyItem EXCEPT !.startedAt = Some(clock)])
        /\ MetCompleted(c) /\ GotDuplicate(c)

\* ------------------------------------------------------------- C32
\* The strategy of caller c has a max_duration smaller than its first delay.
ShortPoll(c) ==
    /\ op[c] = "once"
    /\ Cfg(c).poll_strategy.max_duration < Cfg(c).poll_strategy.delay

\* Such a caller sleeps once: it goes to sleep only in the first iteration
\* of the loop, for the first delay, and never issues a poll claim.
C32_OneSleep ==
    \A c \in Callers :
        (pc'[c] \in {"sleep", "pollclassify"} /\ Acting(c) /\ ShortPoll(c)') =>
            /\ pc'[c] = "sleep"
            /\ poll'[c].attempt = 0
            /\ poll'[c].wake = poll'[c].start_time + PollDelay(Cfg(c).poll_strategy, 0)

\* The end of that sleep: the call returns New and the table receives no
\* request.
C32_ThenNew ==
    \A c \in Callers : (WakeStep(c) /\ ShortPoll(c)) =>
        /\ Ran(c)' /\ how'[c] = "pollmax" /\ pc'[c] = "run"
        /\ store' = store /\ last' = last

\* C32: when the poll strategy's max_duration is smaller than its first
\* delay, a caller that observes Running performs exactly one sleep and no
\* further claim, then returns New.
C32_GivesUpAfterOneSleep == [][C32_OneSleep /\ C32_ThenNew]_vars

\* C32 witness: under Linear(2, 1) a caller met the running record, slept
\* its one delay and holds New while the first runner is still running and
\* the row is as the first claim left it.
C32_Witness ==
    \E a, c \in On(<<"a", "D">>) :
        /\ how[a] = "fresh" /\ pc[a] = "run"
        /\ MetUncompleted(c) /\ how[c] = "pollmax" /\ pc[c] = "run"
        /\ store[<<"a", "D">>] = first[c].item
        /\ clock >= PollDelay(Config("D").poll_strategy, 0)

\* ------------------------------------------------------------- C33
\* The step sends caller c to sleep before its next poll observation.
GoesToSleep(c) == pc[c] \in {"classify", "pollclassify"} /\ pc'[c] = "sleep"
\* The length of the sleep that starts in the step.
Slept(c) == poll'[c].wake - clock
\* The number of poll observations caller c has made when the step is over.
Observations(c) == IF pc[c] = "classify" THEN 0 ELSE poll[c].attempt

\* The sleep before observation n lasts delay for Linear and base_delay *
\* multiplier^n for Backoff, and n counts the observations made so far.
C33_Delay ==
    \A c \in Callers : GoesToSleep(c) =>
        LET st == Cfg(c).poll_strategy
            n == Observations(c)
        IN  /\ poll'[c].attempt = n
            /\ st.kind = "Linear" => Slept(c) = st.delay
            /\ st.kind = "Backoff" => Slept(c) = st.delay * Pow(st.multiplier, n)
            /\ (st.kind = "Backoff" /\ n = 0) => Slept(c) = st.delay
            /\ (st.kind = "Backoff" /\ st.multiplier = 1) => Slept(c) = st.delay

\* A poll observation is what ends a sleep: each claim of the loop raises
\* the count by one.
C33_Counts ==
    \A c \in Callers : (pc[c] = "sleep" /\ pc'[c] = "pollclassify") =>
        poll'[c].attempt = poll[c].attempt + 1

\* C33: the delay slept before the n-th poll observation (n = 0 for the
\* first) is the fixed delay for Linear and base_delay * multiplier^n for
\* Backoff; the first Backoff sleep equals base_delay, and with multiplier =
\* 1.0 every Backoff sleep equals base_delay.
C33_PollDelays == [][C33_Delay /\ C33_Counts]_vars

\* C33 witness: under Backoff(1, 1, 3) a caller has made two poll
\* observations and is in its third sleep, which ends 3 ms after the loop
\* was entered: three sleeps of base_delay.
C33_Witness ==
    \E d \in On(<<"a", "K">>) :
        /\ pc[d] = "sleep" /\ poll[d].attempt = 2
        /\ poll[d].wake = poll[d].start_time + 3 * Config("K").poll_strategy.delay

\* ------------------------------------------------------------- C34
\* A completion under ttl = None leaves the row without expiresOn; one under
\* ttl = Some(t) leaves the row with an expires_on, as decoded, equal to the
\* instant of the completion plus t.
C34_Step ==
    \A c \in Callers : CompletionStep(c) =>
        IF IsSome(Cfg(c).ttl)
        THEN /\ IsSome(RowOf(key[c]).expiresOn')
             /\ Unwrap(RowOf(key[c]).expiresOn') * MillisPerSec = clock + Unwrap(Cfg(c).ttl)
        ELSE RowOf(key[c]).expiresOn' = None

\* A row of a coordinator with ttl = None never carries expiresOn, so no
\* call on it takes the Expired branch.
C34_NeverExpires ==
    /\ \A k \in Keys : Config(k[2]).ttl = None => RowOf(k).expiresOn = None
    /\ \A c \in Callers : Cfg(c).ttl = None => how[c] # "expired"

\* C34 as stated: a completion issued by a coordinator configured with ttl =
\* none leaves the row without expires_on, so the row is never Expired and
\* never eligible for backend expiry; a completion with ttl = t leaves
\* expires_on equal to that completion's instant plus t.
C34_TtlWritten == [][C34_Step /\ C34_NeverExpires']_vars

\* The stored expiresOn is the whole second that contains the instant of the
\* completion plus the ttl.
C34_WholeSecond ==
    \A c \in Callers : (CompletionStep(c) /\ IsSome(Cfg(c).ttl)) =>
        /\ IsSome(RowOf(key[c]).expiresOn')
        /\ LET e == Unwrap(RowOf(key[c]).expiresOn') * MillisPerSec
               due == clock + Unwrap(Cfg(c).ttl)
           IN  e <= due /\ due < e + MillisPerSec

\* The attributes of the row of key k when the step is over.
RowAfter(k) == IF IsSome(store'[k]) THEN Unwrap(store'[k]) ELSE KeyOnlyItem

\* Whatever a caller under ttl = None does, a completion included, the row
\* is without expiresOn afterwards and the caller has not taken the Expired
\* branch.
C34_NoTtl ==
    \A c \in Callers : (Acting(c) /\ op'[c] = "once" /\ Config(key'[c][2]).ttl = None) =>
        /\ RowAfter(key'[c]).expiresOn = None
        /\ how'[c] # "expired"

\* C34, amended: a completion under ttl = none leaves the row without
\* expires_on, and the row never classifies as Expired; a completion under
\* ttl = t leaves expires_on at the completion's instant plus t with the
\* part below a whole second dropped.
C34_TtlInWholeSeconds == [][C34_WholeSecond /\ C34_NoTtl]_vars

\* C34 witness: a row completed under ttl = None carries no expiresOn, and a
\* row completed under ttl = 1 ms at an instant after the start of the
\* second carries the second's start as expiresOn.
C34_Witness ==
    /\ \E c \in On(<<"a", "Q">>) :
          /\ Wrote(c) /\ RowOf(<<"a", "Q">>).memoized = Some(ValueOf(c))
          /\ RowOf(<<"a", "Q">>).expiresOn = None
    /\ \E c \in On(<<"a", "P">>) :
          /\ Wrote(c) /\ RowOf(<<"a", "P">>).memoized = Some(ValueOf(c))
          /\ Unwrap(RowOf(<<"a", "P">>).completedAt) >= 1
          /\ RowOf(<<"a", "P">>).expiresOn = Some(0)

\* ------------------------------------------------------------- C35
\* The step ends the once call of a caller that ran the effect.
RunnerReturns(c) == Ran(c) /\ pc[c] = "run" /\ pc'[c] = "done"

\* once returns Ok(v) on the runner path in the step that applies the
\* completion of v to the row, and not without it.
C35_OkAfterWrite ==
    \A c \in Callers : (RunnerReturns(c) /\ result'[c][1] = "Ok") =>
        /\ result'[c] = <<"Ok", ValueOf(c)>>
        /\ last'[key[c]] = <<"complete", ValueOf(c)>>
        /\ RowAfter(key[c]).memoized = Some(ValueOf(c))
        /\ RowAfter(key[c]).completedAt = Some(clock)

\* When the completion write fails once returns that error, although the
\* effect has run, and the row is as it was: uncompleted if it was.
C35_ErrLeavesRow ==
    \A c \in Callers : (RunnerReturns(c) /\ result'[c] = <<"Err", "Backend">>) =>
        /\ store' = store /\ last' = last
        /\ outcome'[c] = <<"New">>

\* A runner whose call is over returned its value, the error of its effect
\* or the error of the completion write.
C35_Results ==
    \A c \in Callers : RunnerReturns(c) =>
        result'[c] \in {<<"Ok", ValueOf(c)>>, <<"Err", "User">>, <<"Err", "Backend">>}

\* C35: on the runner path once returns Ok(v) only after the completion
\* write for v has been applied to the store; if that completion write
\* fails, once returns the error although f has already run, and the row
\* stays uncompleted.
C35_CompleteThenReturn == [][C35_OkAfterWrite /\ C35_ErrLeavesRow /\ C35_Results]_vars

\* C35 witness: the first runner's completion write failed, its call
\* returned the error and the row stayed uncompleted; a later caller took
\* the record over and completed it.
C35_Witness ==
    \E a, b \in On(<<"a", "P">>) :
        /\ how[a] = "fresh" /\ Ran(a) /\ result[a] = <<"Err", "Backend">>
        /\ NoInvalidate(<<"a", "P">>)
        /\ MetUncompleted(b) /\ how[b] \in {"timeout", "pollmax"} /\ Wrote(b)
        /\ RowOf(<<"a", "P">>).memoized = Some(ValueOf(b))

\* ------------------------------------------------------------- C36
\* The row of k is uncompleted and its age has reached the
\* max_processing_time of its scope.
AgedRow(k) ==
    /\ IsSome(store[k])
    /\ IsSome(Unwrap(store[k]).startedAt)
    /\ ~IsSome(Unwrap(store[k]).completedAt)
    /\ clock - Unwrap(Unwrap(store[k]).startedAt) >= Config(k[2]).max_processing_time

\* An aged uncompleted row stays one under every step, claims and
\* takeovers included, but a completion or an invalidation of that row.
C36_StaysAged ==
    \A k \in keys : (AgedRow(k) /\ ~AgedRow(k)') =>
        /\ last'[k] # last[k]
        /\ last'[k][1] \in {"complete", "inv"}

\* A try_start whose claim met an aged uncompleted row returns New on the
\* timeout branch when it classifies the answer, without a sleep.
C36_Immediate ==
    \A c \in Callers : (pc[c] = "classify" /\ Acting(c) /\ first[c].aged) =>
        /\ Ran(c)' /\ how'[c] = "timeout" /\ pc'[c] = "run"
        /\ poll'[c] = NoPoll

\* C36: a takeover does not re-arm the timeout: a claim never refreshes
\* started_at, so once an uncompleted row's age has reached
\* max_processing_time every try_start on that key, by every caller,
\* returns New immediately without polling until a completion is written or
\* the row is invalidated; the number of concurrent runners after a timeout
\* is not limited to two.
C36_NoRearm == [][C36_StaysAged /\ C36_Immediate]_vars

\* C36 witness: the first runner is still running when its record times
\* out; two further callers both take it over, the second after the first
\* takeover, and the three run the effect at the same time.
C36_Witness ==
    \E a, b, c \in On(<<"a", "P">>) :
        /\ how[a] = "fresh" /\ how[b] = "timeout" /\ how[c] = "timeout"
        /\ b < c /\ first[b].aged /\ first[c].aged
        /\ pc[a] = "run" /\ pc[b] = "run" /\ pc[c] = "run"
        /\ AgedRow(<<"a", "P">>)

\* ------------------------------------------------------------- C37
\* expiresOn of a row changes only in a step that completes or deletes
\* the row.
C37_OnlyCompletion ==
    \A k \in keys : RowAfter(k).expiresOn # RowOf(k).expiresOn =>
        /\ last'[k] # last[k]
        /\ last'[k][1] \in {"complete", "inv"}

\* A row that carries expiresOn carries completedAt and memoized, and once
\* it decodes it classifies as Completed at every instant, those at and
\* after its expiry included.
C37_ExpiryMeansCompleted ==
    \A k \in keys : IsSome(RowOf(k).expiresOn) =>
        /\ IsSome(RowOf(k).completedAt) /\ IsSome(RowOf(k).memoized)
        /\ ~DecodeFails(RowOf(k)) =>
              \A t \in Instants :
                  status(decode_process(RowOf(k)), t, Config(k[2]).max_processing_time)
                      = <<"Completed", Unwrap(RowOf(k).memoized)>>

\* No call has left try_start or the poll loop through an Expired branch.
C37_NoExpiredBranch == \A c \in Callers : how[c] # "expired"

\* C37: the Expired state is unreachable through the protocol: expires_on
\* is written only by a completion, together with completed_at and
\* memoized, so every row with expires_on set classifies as Completed and
\* neither try_start nor the poll loop ever takes its Expired branch.
C37_ExpiredUnreachable ==
    [][C37_OnlyCompletion /\ C37_ExpiryMeansCompleted' /\ C37_NoExpiredBranch']_vars

\* C37 witness: a caller claimed a completed row whose expiry had passed
\* and got Duplicate with the memoized value.
C37_Witness ==
    \E c \in On(<<"a", "P">>) :
        /\ MetCompleted(c) /\ GotDuplicate(c)
        /\ IsSome(Unwrap(first[c].item).expiresOn)
        /\ IsSome(Unwrap(first[c].item).startedAt)
        /\ is_expired(decode_process(Unwrap(first[c].item)), 0)
        /\ outcome[c] = <<"Duplicate", Unwrap(Unwrap(first[c].item).memoized)>>

\* ------------------------------------------------------------- C38
\* The results of Process::status.
Statuses == {"Completed", "Expired", "Timeout", "Running"}

\* Whatever record a caller classifies, and at whatever instant, the
\* status is one of the four.
C38_StatusRange ==
    \A c \in Callers : (Acting(c) /\ HoldsRecord(c)) =>
        \A t \in Instants :
            status(Held(c), t, Cfg(c).max_processing_time)[1] \in Statuses

\* No call has left try_start or the poll loop through a NotStarted branch.
C38_NoNotStartedBranch == \A c \in Callers : how[c] # "notstarted"

\* C38: classifying an observed record never yields NotStarted: the only
\* results are Completed, Expired, Timeout and Running, so the NotStarted
\* branches of try_start and of the poll loop are never taken.
C38_NeverNotStarted == [][C38_StatusRange /\ C38_NoNotStartedBranch']_vars

\* C38 witness: a caller met an uncompleted record claimed by a writer
\* whose clock is ahead, classified it before that instant in try_start and
\* again in the poll loop, and is waiting: the record was Running both times.
C38_Witness ==
    \E c \in On(<<"a", "Q">>) :
        /\ MetUncompleted(c)
        /\ Unwrap(first[c].item).startedAt = Some(1)
        /\ pc[c] = "sleep" /\ poll[c].start_time = 0 /\ poll[c].attempt = 1

\* ------------------------------------------------------------- C39
\* A completion that finds no row creates one: completedAt and memoized of
\* the runner, no startedAt.
C39_Recreates ==
    \A c \in Callers : (CompletionStep(c) /\ ~IsSome(store[key[c]])) =>
        /\ IsSome(store'[key[c]])
        /\ RowAfter(key[c]).completedAt = Some(clock)
        /\ RowAfter(key[c]).memoized = Some(ValueOf(c))
        /\ RowAfter(key[c]).startedAt = None

\* A row without startedAt is one a completion has just re-created: no
\* claim has touched it yet.
C39_Untouched ==
    \A k \in keys : (IsSome(store[k]) /\ DecodeFails(RowOf(k))) =>
        /\ last[k][1] = "complete"
        /\ IsSome(RowOf(k).completedAt) /\ IsSome(RowOf(k).memoized)

\* The next claim on the key is answered with that row, and the call that
\* issued it returns a decoding error: neither New nor Duplicate.
C39_NextClaimFails ==
    \A c \in Callers :
        /\ (ClaimStep(c) /\ IsSome(store[key'[c]]) /\ DecodeFails(RowOf(key'[c]))) =>
              snap'[c] = store[key'[c]]
        /\ (/\ pc[c] \in {"classify", "pollclassify"} /\ Acting(c)
            /\ IsSome(snap[c]) /\ DecodeFails(Unwrap(snap[c]))) =>
              /\ pc'[c] = "done"
              /\ result'[c] = <<"Err", "Decoding">>
              /\ ~Ran(c)' /\ ~GotDuplicate(c)'

\* C39: completion is an upsert: when the row was deleted between a
\* runner's claim and its completion, the completion re-creates the row
\* with completed_at and memoized but without started_at, and the next
\* try_start on that key returns a decoding error (missing startedAt)
\* instead of New or Duplicate.
C39_UpsertAfterInvalidate ==
    [][C39_Recreates /\ C39_Untouched' /\ C39_NextClaimFails]_vars

\* C39 witness: the runner claimed, the row was invalidated during the run,
\* the runner completed, and the next try_start met the re-created row and
\* returned the decoding error.
C39_Witness ==
    \E a, c \in On(<<"a", "P">>), b \in Callers :
        /\ how[a] = "fresh" /\ Wrote(a)
        /\ op[b] = "inv" /\ key[b] = <<"a", "P">> /\ pc[b] = "done"
        /\ op[c] = "once" /\ pc[c] = "done"
        /\ first[c].ev = <<"complete", ValueOf(a)>>
        /\ IsSome(first[c].item)
        /\ Unwrap(first[c].item).startedAt = None
        /\ Unwrap(first[c].item).memoized = Some(ValueOf(a))
        /\ result[c] = <<"Err", "Decoding">>
        /\ ~Ran(c) /\ ~GotDuplicate(c)

\* ------------------------------------------------------------- C40
\* The step is one of caller c inside try_start_process: the first claim,
\* the classification of an answer, a wake-up of the poll loop.
TryStartStep(c) ==
    /\ pc[c] \in {"idle", "classify", "sleep", "pollclassify"}
    /\ Acting(c)
    /\ op'[c] = "once"

\* The attributes of a row that a completion writes.
Completion(row) == <<row.completedAt, row.memoized, row.expiresOn>>

\* A step of try_start leaves completedAt, memoized and expiresOn of every
\* row as they are and removes no row.
C40_TryStartFrame ==
    \A c \in Callers : TryStartStep(c) =>
        \A k \in keys :
            /\ Completion(RowAfter(k)) = Completion(RowOf(k))
            /\ IsSome(store[k]) => IsSome(store'[k])

\* The completion attributes of a row that stays change only in the step
\* of a completion callback on its key, and a row disappears only in the
\* step of an invalidate on its key.
C40_Writers ==
    \A k \in keys :
        /\ (IsSome(store'[k]) /\ Completion(RowAfter(k)) # Completion(RowOf(k))) =>
              \E c \in Callers : CompletionStep(c) /\ key[c] = k
        /\ (IsSome(store[k]) /\ ~IsSome(store'[k])) =>
              \E c \in Callers : InvalidateStep(c) /\ key'[c] = k

\* C40: try_start, including its poll loop, issues only claim operations:
\* it never changes completed_at, memoized or expires_on of any row and
\* never deletes a row; those fields change only through a completion
\* callback and rows disappear only through invalidate.
C40_TryStartOnlyClaims == [][C40_TryStartFrame /\ C40_Writers]_vars

\* C40 witness: a caller waited in the poll loop until the runner's
\* completion and a later caller claimed the completed row; both got
\* Duplicate and the row carries the runner's completion as written.
C40_Witness ==
    \E r, c, d \in On(<<"a", "P">>) :
        /\ how[r] = "fresh" /\ Wrote(r)
        /\ MetUncompleted(c) /\ GotDuplicate(c)
        /\ MetCompleted(d) /\ GotDuplicate(d)
        /\ RowOf(<<"a", "P">>).memoized = Some(ValueOf(r))
        /\ IsSome(RowOf(<<"a", "P">>).completedAt)
        /\ IsSome(RowOf(<<"a", "P">>).expiresOn)
        /\ first[d].item = store[<<"a", "P">>]

=============================================================================
